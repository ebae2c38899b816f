----------------------------- MODULE RepoEditor -----------------------------
(***************************************************************************)
(* The Console's editor of a box repo and its push mirrors                 *)
(* (workspace/boxrepo.go) over the Gitea client (gitea/client.go).  A      *)
(* request is a sequence of HTTP calls; each is answered, or breaks before *)
(* or after the box acted on it.                                           *)
(*                                                                         *)
(* One file, whose versions are numbered (0: there is none); a blob sha    *)
(* names its content, so a restored version has the sha it had before.  A  *)
(* mirror has the name Gitea gave it.                                      *)
(***************************************************************************)
EXTENDS Naturals, FiniteSets

CONSTANTS Tabs,    \* editor sessions
          Remotes,
          MaxEdits \* bound: what users start and what breaks

VARIABLES box,     \* what the workspace is, who asks, and the repo and path that are open
          blob,    \* the file at HEAD
          log,     \* the versions it has had
          mirrors,
          base,    \* tab -> the version it has read
          view,    \* tab -> the older version it shows, 0 for none
          call,    \* tab -> the request in flight
          reply,   \* tab -> the last answer
          names,   \* mirror names and versions given out
          edits

rvars == <<box, blob, log, mirrors, base, view, call, reply, names, edits>>

maxAttempts == 3
Edit == edits < MaxEdits /\ edits' = edits + 1
Rest == UNCHANGED edits
Shut == [pc |-> "idle", op |-> "none", alone |-> FALSE]
NoReply == [code |-> "ok"]
Mirroring(t) == call[t].op \in {"set", "unset"}

\* A request every gate lets through; at most one of them is closed.
Usual == [repo |-> "rill", source |-> TRUE, member |-> TRUE, onVM |-> TRUE, rill |-> TRUE, domain |-> "*.box",
          cred |-> TRUE, caller |-> "jane", path |-> "model.sql"]
RInit ==
  /\ box \in [repo : {"rill", "pipelines", "other"}, source : BOOLEAN, member : BOOLEAN, onVM : BOOLEAN,
              rill : BOOLEAN, domain : {"", "*.box"}, cred : BOOLEAN, caller : {"", "jane"},
              path : {"model.sql", "duckdb.yaml", "../up"}]
  /\ Cardinality({f \in DOMAIN Usual : box[f] # Usual[f]}) <= 1
  /\ blob = 1 /\ log = {1} /\ mirrors = {} /\ names = 1 /\ edits = 0
  /\ base = [t \in Tabs |-> 0] /\ view = [t \in Tabs |-> 0]
  /\ call = [t \in Tabs |-> Shut] /\ reply = [t \in Tabs |-> NoReply]

-----------------------------------------------------------------------------
(* Gates *)

boxRepoAllowlist == {"rill", "transformations"}
boxRepoMirrorAllowlist == boxRepoAllowlist \cup {"pipelines"}
\* A source of credentials, the caller's workspace, on a box that runs the app,
\* with a domain and a deposited credential.
boxGitea ==
  /\ box.source /\ box.member /\ box.onVM /\ (box.repo = "rill" => box.rill)
  /\ box.domain # "" /\ box.cred
clientFor == box.repo \in boxRepoAllowlist /\ boxGitea
mirrorClientFor == box.repo \in boxRepoMirrorAllowlist /\ boxGitea
isHiddenRepoPath(path) == path = "duckdb.yaml"
validateRepoPath(path) == path # "../up" /\ ~isHiddenRepoPath(path)
fileFor == clientFor /\ validateRepoPath(box.path)
\* The server asks who calls before anything else.
Caller == box.caller # ""

-----------------------------------------------------------------------------
(* The client *)

Method(r) ==
  IF r.pc \in {"get", "at", "commits", "tree", "list"} THEN "GET"
  ELSE IF r.pc \in {"add", "push"} \/ (r.pc = "put" /\ r.sha = 0) THEN "POST"
  ELSE IF r.pc = "put" THEN "PUT" ELSE "DELETE"
\* How a call can end badly: no answer, 409 or 422, which both read as a stale
\* sha, or any other status outside 2xx.
Trouble == {"lost", "changed", "status"}
isTransportErr(err) == err = "lost"
\* Mutant: every call without an answer is replayed.
RetryAny(method, err) == isTransportErr(err)
isRetryable(method, err) == method = "GET" /\ isTransportErr(err)
\* What the server answers with.
classifyTransport(method, err) ==
  CASE method = "GET" /\ isTransportErr(err) -> "unavailable"
    [] err = "changed" -> "aborted"
    [] OTHER -> "internal"

\* What Gitea does with the call of a request: a stale sha is a conflict, and
\* a missing file or an unknown mirror is not found.
Takes(r) ==
  /\ r.pc = "get" => blob # 0
  /\ r.pc \in {"put", "erase"} => r.sha = blob
  /\ r.pc = "drop" => \E m \in mirrors : m.name = r.mirror
Acts(r) ==
  /\ blob' = IF Takes(r) /\ r.pc = "put" THEN IF r.text = 0 THEN names + 1 ELSE r.text
             ELSE IF Takes(r) /\ r.pc = "erase" THEN 0 ELSE blob
  /\ mirrors' = IF r.pc = "add" THEN mirrors \cup {[name |-> names + 1, remote |-> r.remote]}
                ELSE IF r.pc = "drop" THEN {m \in mirrors : m.name # r.mirror} ELSE mirrors
  /\ log' = log \cup ({blob'} \ {0})
  /\ names' = IF <<log', mirrors'>> # <<log, mirrors>> /\ r.pc \in {"put", "add"} THEN names + 1 ELSE names
Idles == UNCHANGED <<blob, log, mirrors, names>>

-----------------------------------------------------------------------------
(* Requests *)

Opened(t, r) ==
  call' = [s \in Tabs |-> IF s = t THEN r ELSE IF Mirroring(s) /\ r.op \in {"set", "unset"}
                                               THEN [call[s] EXCEPT !.alone = FALSE] ELSE call[s]]
\* The sha a write is guarded with.
Sha(t) == base[t]
Request(t, op, pc, ref, remote) ==
  /\ Edit /\ call[t].pc = "idle"
  /\ Opened(t, [pc |-> pc, op |-> op, remote |-> remote, sha |-> Sha(t), text |-> ref, todo |-> {}, mirror |-> 0,
                attempt |-> 1, alone |-> \A s \in Tabs : ~Mirroring(s)])
  /\ UNCHANGED <<box, blob, log, mirrors, base, view, reply, names>>

\* The service: the gates, then the first call.
listFiles(t) == clientFor /\ Request(t, "files", "tree", 0, "none")
getFile(t) == fileFor /\ Request(t, "read", "get", 0, "none")
\* What the tab shows: an older version when it is about to restore it.
putFile(t) == fileFor /\ Request(t, "write", "put", view[t], "none")
DeleteFile(t) == fileFor /\ base[t] # 0 /\ Request(t, "erase", "erase", 0, "none")
listFileHistory(t) == fileFor /\ Request(t, "history", "commits", 0, "none")
\* Refs are commits of the history, never branch names.
isCommitSHA(ref) == ref # 0
getFileAtRef(t, ref) == fileFor /\ isCommitSHA(ref) /\ Request(t, "view", "at", ref, "none")
\* An https remote without credentials in it; user name and token beside it.
validateMirrorRemote(url) == url \notin {"http", "userinfo"}
setPushMirror(t, url, username, password) ==
  /\ validateMirrorRemote(url) /\ username # "" /\ password # ""
  /\ mirrorClientFor /\ Request(t, "set", "list", 0, url)
getPushMirror(t) == mirrorClientFor /\ Request(t, "status", "list", 0, "none")
deletePushMirror(t) == mirrorClientFor /\ Request(t, "unset", "list", 0, "none")
syncPushMirror(t) == mirrorClientFor /\ Request(t, "sync", "push", 0, "none")

\* The server.
ListFiles(t) == Caller /\ listFiles(t)
GetFile(t) == Caller /\ getFile(t)
PutFile(t) == Caller /\ putFile(t)
ListFileHistory(t) == Caller /\ listFileHistory(t)
GetFileAtRef(t) == Caller /\ \E ref \in log : getFileAtRef(t, ref)
SetPushMirror(t) ==
  Caller /\ \E url \in Remotes, username \in {"", "jane"}, password \in {"", "token"} :
              setPushMirror(t, url, username, password)
GetPushMirror(t) == Caller /\ getPushMirror(t)
DeletePushMirror(t) == Caller /\ deletePushMirror(t)
SyncPushMirror(t) == Caller /\ syncPushMirror(t)

Done(t, r, code) ==
  /\ call' = [call EXCEPT ![t] = Shut]
  /\ reply' = [reply EXCEPT ![t] = [code |-> code]]
Goes(t, r) == call' = [call EXCEPT ![t] = r] /\ UNCHANGED reply

\* After the list, or after a mirror is gone: the next one, then the new one.
Onward(t, r, todo) ==
  IF todo # {} THEN LET m == CHOOSE m \in todo : TRUE
                    IN Goes(t, [r EXCEPT !.pc = "drop", !.mirror = m, !.todo = todo \ {m}, !.attempt = 1])
  ELSE IF r.op = "set" THEN Goes(t, [r EXCEPT !.pc = "add", !.attempt = 1])
  ELSE Done(t, r, "ok")

\* The box answers.
ListPushMirrors == {m.name : m \in mirrors}
\* A conflict over a sha, or not found.
checkResponseStatus(r) == IF r.pc \in {"put", "erase"} THEN "aborted" ELSE "internal"
Shows(t, sha, old) == base' = [base EXCEPT ![t] = sha] /\ view' = [view EXCEPT ![t] = old]
Answered(t) ==
  /\ call[t].pc # "idle" /\ Rest /\ Acts(call[t])
  /\ LET r == call[t] IN
     \/ r.pc = "get" /\ Takes(r) /\ Done(t, r, "ok") /\ Shows(t, blob, 0)
     \/ r.pc = "at" /\ Done(t, r, "ok") /\ Shows(t, base[t], r.text)
     \/ r.pc \in {"put", "erase"} /\ Takes(r) /\ Done(t, r, "ok") /\ Shows(t, blob', 0)
     \/ r.pc \in {"tree", "commits", "add", "push"} /\ Done(t, r, "ok") /\ UNCHANGED <<base, view>>
     \/ r.pc = "list" /\ UNCHANGED <<base, view>>
        /\ IF r.op = "status" THEN Done(t, r, "ok") ELSE Onward(t, r, ListPushMirrors)
     \/ r.pc = "drop" /\ Takes(r) /\ Onward(t, r, r.todo) /\ UNCHANGED <<base, view>>
     \/ ~Takes(r) /\ Done(t, r, checkResponseStatus(r)) /\ UNCHANGED <<base, view>>
  /\ UNCHANGED box

\* The call ends badly; the box may have acted on it.
Broken(t) ==
  /\ call[t].pc # "idle" /\ Edit
  /\ Acts(call[t]) \/ Idles
  /\ \E err \in Trouble :
       LET r == call[t] IN
       IF isRetryable(Method(r), err) /\ r.attempt < maxAttempts
       THEN Goes(t, [r EXCEPT !.attempt = @ + 1]) ELSE Done(t, r, classifyTransport(Method(r), err))
  /\ UNCHANGED <<box, base, view>>

RNext == \E t \in Tabs :
  \/ ListFiles(t) \/ GetFile(t) \/ PutFile(t) \/ DeleteFile(t)
  \/ ListFileHistory(t) \/ GetFileAtRef(t)
  \/ SetPushMirror(t) \/ GetPushMirror(t) \/ DeletePushMirror(t) \/ SyncPushMirror(t)
  \/ Answered(t) \/ Broken(t)

EditorSpec == RInit /\ [][RNext]_rvars

-----------------------------------------------------------------------------
(* Properties *)

\* Setting the mirror while nobody else does leaves exactly that one, whatever
\* earlier requests left behind; removing it leaves none (SetPushMirror: "the
\* Console model is one mirror per repo").
MirrorReplaced ==
  [][\A t \in Tabs :
       call[t].alone /\ call'[t] = Shut /\ reply'[t].code = "ok" =>
         /\ call[t].op = "set" => \E m \in mirrors' : mirrors' = {m} /\ m.remote = call[t].remote
         /\ call[t].op = "unset" => mirrors' = {}]_rvars
=============================================================================
