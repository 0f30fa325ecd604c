---------------------------- MODULE ToolRegistry ----------------------------
(***************************************************************************)
(* tako-mcp's ToolRegistry (registry.rs) over one MCP connection: tools by *)
(* name behind tokio's RwLock, which is granted first come, first served.  *)
(* invoke() holds the read lock for as long as its tool runs; discover()   *)
(* asks the server for its tools and then registers them under the write   *)
(* lock.                                                                   *)
(***************************************************************************)
EXTENDS McpTransport

CONSTANTS
  Tools,     \* names of tools
  MaxJobs    \* a bound: calls of the registry, all callers together

ASSUME RegistryAssumption == MaxJobs \in Nat /\ MaxJobs <= MaxId

VARIABLES
  table,    \* table[t]: what is registered under t
  queue,    \* <<caller, "read" | "write">>: who waits for the lock, in order
  readers,  \* who holds the read lock
  job,      \* job[c]: the call of the registry that c makes
  tool,     \* tool[c]: the name it invokes or registers
  jobs      \* calls made so far

regVars == <<table, queue, readers, job, tool, jobs>>
vars == <<mcpVars, regVars>>

Entries == {"none", "native", "mcp"}

(* A call: none; waiting for the read lock; running a native tool; in      *)
(* tools/call; in tools/list; waiting for the write lock.                  *)
Job == {"none", "lookup", "native", "call", "list", "insert native", "insert mcp"}

(* The connection is new; the registry holds what earlier calls, over this *)
(* or another handle, have put there.                                      *)
Init ==
  /\ TransportInit
  /\ table \in [Tools -> Entries]
  /\ queue = <<>> /\ readers = {} /\ jobs = 0
  /\ job = [c \in Callers |-> "none"]
  /\ tool \in [Callers -> Tools]

Set(c, j) == job' = [job EXCEPT ![c] = j]
Wait(c, how) == queue' = Append(queue, <<c, how>>)

(* The queue without the place of c, who waits at most once. *)
Waits(c) == \E i \in DOMAIN queue : queue[i][1] = c
Place(c) == CHOOSE i \in DOMAIN queue : queue[i][1] = c
Without(c) ==
  IF Waits(c)
  THEN [j \in 1 .. Len(queue) - 1 |-> IF j < Place(c) THEN queue[j] ELSE queue[j + 1]]
  ELSE queue

Start(c, t) ==
  /\ job[c] = "none" /\ jobs < MaxJobs
  /\ jobs' = jobs + 1
  /\ tool' = [tool EXCEPT ![c] = t]

StartInvoke(c) ==
  /\ \E t \in Tools : Start(c, t)
  /\ Set(c, "lookup") /\ Wait(c, "read")
  /\ UNCHANGED <<mcpVars, table, readers>>

StartRegister(c) ==
  /\ \E t \in Tools : Start(c, t)
  /\ Set(c, "insert native") /\ Wait(c, "write")
  /\ UNCHANGED <<mcpVars, table, readers>>

(* tools/list is asked for without the lock; the server will name `tool`.  *)
StartDiscover(c) ==
  /\ \E t \in Tools : Start(c, t)
  /\ Set(c, "list") /\ Begin(c)
  /\ UNCHANGED <<table, queue, readers>>

-----------------------------------------------------------------------------
First(c, how) == queue # <<>> /\ Head(queue) = <<c, how>>

(* The lock is granted to c, which holds it for as long as its tool runs.  *)
GrantRead(c) ==
  /\ First(c, "read")
  /\ queue' = Tail(queue)
  /\ UNCHANGED <<table, tool, jobs>>

LookupFails(c) ==
  /\ GrantRead(c) /\ table[tool[c]] = "none"
  /\ Set(c, "none")
  /\ UNCHANGED <<mcpVars, readers>>

InvokeNative(c) ==
  /\ GrantRead(c) /\ table[tool[c]] = "native"
  /\ Set(c, "native") /\ readers' = readers \cup {c}
  /\ UNCHANGED mcpVars


InvokeMcp(c) ==
  /\ GrantRead(c) /\ table[tool[c]] = "mcp"
  /\ Set(c, "call") /\ readers' = readers \cup {c}
  /\ Begin(c)

NativeReturns(c) ==
  /\ job[c] = "native"
  /\ Set(c, "none") /\ readers' = readers \ {c}
  /\ UNCHANGED <<mcpVars, table, queue, tool, jobs>>

(* tools/call is over, with whatever request() returned. *)
CallReturns(c) ==
  /\ job[c] = "call" /\ ~Busy(c)
  /\ Set(c, "none") /\ readers' = readers \ {c}
  /\ UNCHANGED <<mcpVars, table, queue, tool, jobs>>

(* tools/list is over: an error ends discover(), a list is registered.     *)
ListReturns(c) ==
  /\ job[c] = "list" /\ ~Busy(c)
  /\ \/ Set(c, "none") /\ UNCHANGED queue
     \/ Set(c, "insert mcp") /\ Wait(c, "write")
  /\ UNCHANGED <<mcpVars, table, readers, tool, jobs>>

Insert_Barging(c) ==
  /\ First(c, "write")
  /\ queue' = Tail(queue)
  /\ table' = [table EXCEPT ![tool[c]] = IF job[c] = "insert mcp" THEN "mcp" ELSE "native"]
  /\ Set(c, "none")
  /\ UNCHANGED <<mcpVars, readers, tool, jobs>>

(* The write lock: no reader is left.  Nothing is awaited under it. *)
Insert(c) ==
  /\ First(c, "write") /\ readers = {}
  /\ queue' = Tail(queue)
  /\ table' = [table EXCEPT ![tool[c]] = IF job[c] = "insert mcp" THEN "mcp" ELSE "native"]
  /\ Set(c, "none")
  /\ UNCHANGED <<mcpVars, readers, tool, jobs>>

DropJob_KeepsLock(c) ==
  /\ job[c] # "none"
  /\ Set(c, "none")
  /\ queue' = Without(c) /\ UNCHANGED readers
  /\ Cancel(c) \/ (~Busy(c) /\ UNCHANGED mcpVars)
  /\ UNCHANGED <<table, tool, jobs>>

(* The call's future is dropped, with its guard, its place in the queue    *)
(* and its request.                                                        *)
DropJob(c) ==
  /\ job[c] # "none"
  /\ Set(c, "none")
  /\ queue' = Without(c) /\ readers' = readers \ {c}
  /\ Cancel(c) \/ (~Busy(c) /\ UNCHANGED mcpVars)
  /\ UNCHANGED <<table, tool, jobs>>

Proceed(c) ==
  LookupFails(c) \/ InvokeNative(c) \/ InvokeMcp(c) \/ CallReturns(c)
    \/ ListReturns(c) \/ Insert(c)

Next ==
  \/ \E c \in Callers :
       StartInvoke(c) \/ StartRegister(c) \/ StartDiscover(c) \/ Proceed(c)
         \/ NativeReturns(c) \/ DropJob(c)
  \/ TransportStep /\ UNCHANGED regVars

Spec == Init /\ [][Next]_vars

(* tokio runs what can run and native tools return; a server that is up    *)
(* reads and answers, and one whose connection has been closed ends it.    *)
Fairness ==
  /\ \A c \in Callers :
       /\ WF_vars(Proceed(c)) /\ WF_vars(NativeReturns(c))
       /\ WF_vars(Call(c) /\ UNCHANGED regVars)
  /\ WF_vars(Read /\ UNCHANGED regVars) /\ WF_vars(ReaderExits /\ UNCHANGED regVars)
  /\ WF_vars(CloseRest /\ UNCHANGED regVars)
  /\ WF_vars(ServerReads /\ UNCHANGED regVars)
  /\ SF_vars(ServerAnswers /\ UNCHANGED regVars)
  /\ WF_vars(closing = "done" /\ ServerStops /\ UNCHANGED regVars)

FairSpec == Spec /\ Fairness

-----------------------------------------------------------------------------
(* Properties.                                                             *)

(* Every variable has its type. *)
TypeOK ==
  /\ TransportTypeOK
  /\ table \in [Tools -> Entries]
  /\ queue \in Seq(Callers \X {"read", "write"}) /\ Len(queue) <= Cardinality(Callers)
  /\ readers \subseteq Callers
  /\ job \in [Callers -> Job] /\ tool \in [Callers -> Tools]
  /\ jobs \in 0 .. MaxJobs

(* The read lock is held by exactly the calls that run a tool, and who     *)
(* waits for the lock waits once and holds nothing: dropping a call at any *)
(* point leaks neither a guard nor a place in the queue.                   *)
LockHeld ==
  /\ readers = {c \in Callers : job[c] \in {"native", "call"}}
  /\ \A c \in Callers :
       Cardinality({i \in DOMAIN queue : queue[i][1] = c}) =
         IF job[c] \in {"lookup", "insert native", "insert mcp"} THEN 1 ELSE 0

(* A call that is refused, fails or is dropped leaves no mutex, lock or     *)
(* place in a queue behind (registry.rs:113-131), and one that is not       *)
(* dropped no entry in the table of pending requests (websocket.rs:138-148), *)
(* save over stdio on a connection that is dead (stdio.rs:118-129).         *)
NothingLeaks == TypeOK /\ WriterHeld /\ NothingLeftBehind /\ LockHeld

(* While a call runs its tool, nobody registers another under its name.    *)
EntryStable ==
  [][\A c \in Callers : job[c] \in {"native", "call"} =>
        table'[tool[c]] = table[tool[c]]]_vars

(* Nobody answers the request of c any more: the reader has gone, or what  *)
(* the server got of it was not JSON.                                      *)
Unanswerable(c) == at[c] = "waiting" /\ (reader = "exited" \/ id[c] \in garbled)

(* Every call of the registry ends, unless a request has become            *)
(* unanswerable: the lock is never waited for in vain otherwise.           *)
JobsEnd ==
  \A c \in Callers :
    job[c] # "none" ~> job[c] = "none" \/ \E d \in Callers : Unanswerable(d)

(* stdio.rs:134, websocket.rs:152, grpc.rs:235, "rpc channel closed": a    *)
(* request whose answer can no longer come fails.  Its sender is in the    *)
(* table and stays there, so it waits for ever.                            *)
RequestsFail == \A c \in Callers : Unanswerable(c) ~> ~Unanswerable(c)
=============================================================================
