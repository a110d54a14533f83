---------------------------- MODULE CodexSource ----------------------------
(***************************************************************************)
(* CodexProviderSource and the App Server process that it owns             *)
(* (agentpulse-providers/codex: start_inner, stop_inner and                *)
(* ManagedCodexRuntime in runtime.rs, the proxy's socket in                *)
(* runtime/transport.rs).  The host's thread is in one of two calls, start *)
(* and stop, or in none; an action is what it does between two places      *)
(* where it waits, or where another thread may come in between.  The       *)
(* parameter ok says whether the system call at that place succeeds.       *)
(*                                                                         *)
(* Nobody but another Host with the same Provider makes or removes the     *)
(* runtime directory.                                                      *)
(***************************************************************************)
EXTENDS Naturals

VARIABLES
  source,    \* the source: phase, the place of the host's thread; acquired, worker,
             \*   proxy and owns, its fields; failing, whether it cleans up after start;
             \*   clean, whether nothing failed in the cleanup; health; start, counted
  process,   \* the App Server's process group: held, by ManagedCodexRuntime; leader,
             \*   "none", "up" or "gone"; kids, whether it has descendants
  files      \* dir, the runtime directory: "none", "own" or "other"; proxySocket, whether
             \*   the socket of the proxy is in it

sourceVars == <<source, process, files>>

NoProcess == [held |-> FALSE, leader |-> "none", kids |-> FALSE]
\* ManagedProcess::new: a leader of a group of its own.
NewProcess == [held |-> TRUE, leader |-> "up", kids |-> TRUE]
SourceInit ==
  /\ source = [phase |-> "rest", acquired |-> FALSE, worker |-> FALSE, proxy |-> FALSE,
               owns |-> FALSE, failing |-> FALSE, clean |-> TRUE, health |-> "stopped",
               start |-> 0]
  /\ process = NoProcess
  /\ files = [dir |-> "none", proxySocket |-> FALSE]

At(phase) == source.phase = phase
Up == process.leader = "up"

\* transport::connect, with the WebSocket handshake.
Connects(ok) == ok /\ Up

\* transport::bind_proxy and cleanup_proxy.
BindProxy(f) == [f EXCEPT !.proxySocket = TRUE]
CleanupProxy(f, ok) == [f EXCEPT !.proxySocket = @ /\ ~ok]
-----------------------------------------------------------------------------
(* start *)

\* A source that has a worker or resources is refused: AlreadyStarted.
BeginStart ==
  /\ At("rest") /\ ~source.acquired /\ ~source.worker
  /\ source' = [source EXCEPT !.phase = "probe", !.acquired = TRUE, !.failing = FALSE,
                              !.clean = TRUE, !.health = "starting", !.start = @ + 1]
  /\ UNCHANGED <<process, files>>

\* record_start_failure, after which start calls stop_inner.
StartFails(s) == [s EXCEPT !.phase = "join", !.failing = TRUE, !.health = "failed"]
Proceed(ok, phase) ==
  source' = IF ok THEN [source EXCEPT !.phase = phase] ELSE StartFails(source)

\* verify_codex_version.
Probe(ok) ==
  /\ At("probe")
  /\ Proceed(ok, "directory")
  /\ UNCHANGED <<process, files>>

\* A directory that must not exist yet.
MakeDirectory(ok) ==
  LET made == ok /\ files.dir = "none"
  IN  /\ At("directory")
      /\ source' = IF made THEN [source EXCEPT !.phase = "launch", !.owns = TRUE]
                   ELSE StartFails(source)
      /\ files' = IF made THEN [files EXCEPT !.dir = "own"] ELSE files
      /\ UNCHANGED process

Launch(ok) ==
  /\ At("launch")
  /\ Proceed(ok, "connect")
  /\ process' = IF ok THEN NewProcess ELSE process
  /\ UNCHANGED files

\* The socket appears and takes the connection; or the process exits, or time is up.
Connect(ok) ==
  /\ At("connect")
  /\ Proceed(Connects(ok), "initialize")
  /\ UNCHANGED <<process, files>>

Initialize(ok) ==
  /\ At("initialize")
  /\ Proceed(ok /\ Up, "resume")
  /\ UNCHANGED <<process, files>>

\* Every configured thread is tried before the failure of one of them counts.
Resume(ok) ==
  /\ At("resume")
  /\ Proceed(ok /\ Up, "spawn")
  /\ UNCHANGED <<process, files>>

SpawnWorker(ok) ==
  /\ At("spawn")
  /\ source' = IF ok THEN [source EXCEPT !.phase = "proxy", !.worker = TRUE]
               ELSE StartFails(source)
  /\ UNCHANGED <<process, files>>

\* start_client_proxy, if there is to be one; the worker runs already.
StartProxy(wanted, ok) ==
  /\ At("proxy")
  /\ source' = IF ok THEN [source EXCEPT !.phase = "check", !.proxy = wanted]
               ELSE StartFails(source)
  /\ files' = IF ok /\ wanted THEN BindProxy(files) ELSE CleanupProxy(files, TRUE)
  /\ UNCHANGED process

\* Mutant: the worker's failure during the start is overwritten.
CheckHealthMutant ==
  /\ At("check")
  /\ source' = [source EXCEPT !.phase = "rest", !.health = "running"]
  /\ UNCHANGED <<process, files>>

\* A worker that failed meanwhile has said so.
CheckHealth ==
  /\ At("check")
  /\ source' = IF source.health = "failed" THEN StartFails(source)
               ELSE [source EXCEPT !.phase = "rest", !.health = "running"]
  /\ UNCHANGED <<process, files>>
-----------------------------------------------------------------------------
(* stop *)

\* The threads are told to stop.
BeginStop ==
  /\ At("rest") /\ source.acquired
  /\ source' = [source EXCEPT !.phase = "join", !.failing = FALSE, !.clean = TRUE]
  /\ UNCHANGED <<process, files>>

\* The proxy's thread removes its socket when it leaves.
JoinProxy(ok) ==
  /\ At("join") /\ source.proxy
  /\ files.proxySocket \/ ok
  /\ source' = [source EXCEPT !.proxy = FALSE, !.clean = @ /\ ok]
  /\ files' = CleanupProxy(files, ok)
  /\ UNCHANGED process

\* io.close may fail when the worker leaves.
JoinWorker(ended, ok) ==
  /\ At("join") /\ ~source.proxy
  /\ source.worker => ended
  /\ source' = [source EXCEPT !.worker = FALSE, !.clean = @ /\ ok,
                              !.phase = IF process.held THEN "terminate" ELSE "remove"]
  /\ UNCHANGED <<process, files>>

\* ManagedCodexRuntime::stop.  The group has the SIGTERM; the leader exits in time and
\* the rest of its group is killed, ...
Reap ==
  /\ At("terminate") /\ process.leader = "gone"
  /\ source' = [source EXCEPT !.phase = "remove"]
  /\ process' = NoProcess
  /\ UNCHANGED files

\* Mutant: the leader is waited for without a limit.
KillMutant == At("terminate") /\ Up /\ UNCHANGED sourceVars

\* ... or it does not, and all of the group is.
Kill ==
  /\ At("terminate") /\ Up
  /\ source' = [source EXCEPT !.phase = "remove"]
  /\ process' = NoProcess
  /\ UNCHANGED files

\* The directory goes if it is empty but for the App Server's socket.  A failure leaves
\* the ownership, so that the cleanup of the next start tries again.
RemoveDirectory(ok) ==
  LET removed == ok /\ ~files.proxySocket
  IN  /\ At("remove")
      /\ source' = [source EXCEPT !.phase = "finish", !.acquired = FALSE,
                                  !.owns = @ /\ ~removed, !.clean = @ /\ (source.owns => removed)]
      /\ files' = IF ~source.owns THEN files
                  ELSE IF removed THEN [files EXCEPT !.dir = "none"]
                  ELSE files
      /\ UNCHANGED process

Finish ==
  /\ At("finish")
  /\ source' = [source EXCEPT !.phase = "rest",
                 !.health = IF source.failing \/ ~source.clean THEN "failed" ELSE "stopped"]
  /\ UNCHANGED <<process, files>>

\* run_client_proxy: accept fails, and the thread ends.
ProxyFails ==
  /\ source.proxy /\ files.proxySocket /\ ~At("join")
  /\ source' = [source EXCEPT !.health = "failed"]
  /\ files' = CleanupProxy(files, TRUE)
  /\ UNCHANGED process
-----------------------------------------------------------------------------
(* The environment *)

\* The leader exits, on the SIGTERM or by itself; its descendants may stay.
LeaderExits ==
  /\ Up
  /\ process' = [process EXCEPT !.leader = "gone"]
  /\ UNCHANGED <<source, files>>

KidsExit ==
  /\ process.kids
  /\ process' = [process EXCEPT !.kids = FALSE]
  /\ UNCHANGED <<source, files>>

\* Another Host takes the directory, and gives it back.
OtherHost ==
  /\ files.dir # "own"
  /\ files' = [files EXCEPT !.dir = IF @ = "none" THEN "other" ELSE "none"]
  /\ UNCHANGED <<source, process>>
=============================================================================
