-------------------------------- MODULE Jni --------------------------------
(***************************************************************************)
(* Java calls a native method written in assembly, which calls back into   *)
(* Java: HelloWorld.s (64 bit) and HelloArgs.s.  The native code looks up  *)
(* its class and its method through the function table behind JNIEnv and   *)
(* calls the method.  It never asks whether a lookup succeeded.  Threads   *)
(* share the table and have a JNIEnv of their own.                         *)
(***************************************************************************)
EXTENDS Naturals, Sequences

CONSTANTS
  Threads,     \* Java threads that call the native method
  Objects,     \* receivers
  MaxRequests  \* bound on the calls of one thread

\* What the composing module assumes of the constants.
JniAssumption == MaxRequests \in Nat

VARIABLES
  pc,        \* thread -> where it is
  rdi, rsi, rax,
  frame,     \* thread -> the 40 bytes below rbp
  object,    \* thread -> the receiver of its current request
  pending,   \* thread -> a Java exception is pending
  requests,  \* thread -> calls of the native method so far
  calls,     \* thread -> history: what this request called, and how
  greeted,   \* thread -> history: receivers whose Java method ran
  crashed    \* the JVM has aborted

vars == <<pc, rdi, rsi, rax, frame, object, pending, requests, calls, greeted, crashed>>

Null == "null"
Table == "table"

\* The entries the program uses and their neighbours.
Function(offset) ==
  CASE offset = 48 -> "FindClass"
    [] offset = 264 -> "GetMethodID"
    [] offset = 488 -> "CallVoidMethod"
    [] OTHER -> "another"

\* Mutant: an index is off by one.
OffsetsByOne == [find |-> 48, method |-> 264, call |-> 496]

Offsets == [find |-> 48, method |-> 264, call |-> 488]

Empty == [env |-> Null, obj |-> Null, table |-> Null, class |-> Null, method |-> Null]

Init ==
  /\ pc = [t \in Threads |-> "java"]
  /\ rdi = [t \in Threads |-> Null]
  /\ rsi = [t \in Threads |-> Null]
  /\ rax = [t \in Threads |-> Null]
  /\ frame = [t \in Threads |-> Empty]
  /\ object \in [Threads -> Objects]
  /\ pending = [t \in Threads |-> FALSE]
  /\ requests = [t \in Threads |-> 0]
  /\ calls = [t \in Threads |-> <<>>]
  /\ greeted = [t \in Threads |-> <<>>]
  /\ crashed = FALSE

Goto(t, from, to) ==
  /\ ~ crashed
  /\ pc[t] = from /\ pc' = [pc EXCEPT ![t] = to]

\* A call through the table: which function it reaches, for whom, on what.
Record(t, offset, args) ==
  calls' = [calls EXCEPT ![t] = Append(@, <<Function(offset), rdi[t], args>>)]

-----------------------------------------------------------------------------
\* main calls the native method: JNIEnv* in rdi, the receiver in rsi.
Request(t) ==
  /\ Goto(t, "java", "prologue")
  /\ requests[t] < MaxRequests
  /\ requests' = [requests EXCEPT ![t] = @ + 1]
  /\ \E o \in Objects :
       /\ object' = [object EXCEPT ![t] = o]
       /\ rsi' = [rsi EXCEPT ![t] = o]
  /\ rdi' = [rdi EXCEPT ![t] = t]
  /\ calls' = [calls EXCEPT ![t] = <<>>]
  /\ UNCHANGED <<rax, frame, pending, greeted, crashed>>

\* Mutant: the frame is one block of memory for all threads.
PrologueStatic(t) ==
  /\ Goto(t, "prologue", "find")
  /\ frame' = [u \in Threads |-> [Empty EXCEPT !.env = rdi[t], !.obj = rsi[t], !.table = Table]]
  /\ rax' = [rax EXCEPT ![t] = Table]
  /\ UNCHANGED <<rdi, rsi, object, pending, requests, calls, greeted, crashed>>

\* The frame gets JNIEnv, the receiver and the address of the table.
Prologue(t) ==
  /\ Goto(t, "prologue", "find")
  /\ frame' = [frame EXCEPT ![t] =
                 [Empty EXCEPT !.env = rdi[t], !.obj = rsi[t], !.table = Table]]
  /\ rax' = [rax EXCEPT ![t] = Table]
  /\ UNCHANGED <<rdi, rsi, object, pending, requests, calls, greeted, crashed>>

\* FindClass; null comes with an exception.
FindClass(t) ==
  /\ Goto(t, "find", "method")
  /\ Record(t, Offsets.find, <<"name">>)
  /\ \E class \in {Null, "class"} :
       /\ rax' = [rax EXCEPT ![t] = class]
       /\ frame' = [frame EXCEPT ![t].class = class]
       /\ pending' = [pending EXCEPT ![t] = class = Null]
  /\ UNCHANGED <<rdi, rsi, object, requests, greeted, crashed>>

\* GetMethodID on whatever FindClass returned: the JVM may abort on null.
GetMethodID(t) ==
  /\ Goto(t, "method", "restore")
  /\ rdi' = [rdi EXCEPT ![t] = frame[t].env]
  /\ rsi' = [rsi EXCEPT ![t] = rax[t]]
  /\ calls' = [calls EXCEPT ![t] =
                 Append(@, <<Function(Offsets.method), rdi'[t], <<rsi'[t]>> >>)]
  /\ \E method \in IF rsi'[t] = Null THEN {Null} ELSE {Null, "method"} :
       /\ rax' = [rax EXCEPT ![t] = method]
       /\ frame' = [frame EXCEPT ![t].method = method]
       /\ pending' = [pending EXCEPT ![t] = @ \/ method = Null]
  /\ crashed' \in {FALSE, rsi'[t] = Null}
  /\ UNCHANGED <<object, requests, greeted>>

\* CallVoidMethod: runs the Java method, which may throw.  With a null method
\* the JVM may abort, or return without having called anything.
CallVoidMethod(t) ==
  LET ok == rax[t] # Null /\ Function(Offsets.call) = "CallVoidMethod"
  IN  /\ Goto(t, "restore", "epilogue")
      /\ rdi' = [rdi EXCEPT ![t] = frame[t].env]
      /\ rsi' = [rsi EXCEPT ![t] = frame[t].obj]
      /\ calls' = [calls EXCEPT ![t] =
                     Append(@, <<Function(Offsets.call), rdi'[t], <<rsi'[t], rax[t]>> >>)]
      /\ greeted' = IF ok THEN [greeted EXCEPT ![t] = Append(@, rsi'[t])] ELSE greeted
      /\ \E throws \in IF ok THEN BOOLEAN ELSE {FALSE} :
           pending' = [pending EXCEPT ![t] = @ \/ throws]
      /\ crashed' \in {FALSE, rax[t] = Null}
      /\ UNCHANGED <<rax, frame, object, requests>>

\* The native method returns; a pending exception is thrown in main, which
\* does not catch it.
Return(t) ==
  /\ Goto(t, "epilogue", IF pending[t] THEN "threw" ELSE "java")
  /\ frame' = [frame EXCEPT ![t] = Empty]
  /\ UNCHANGED <<rdi, rsi, rax, object, pending, requests, calls, greeted, crashed>>

Next ==
  \E t \in Threads :
    Request(t) \/ Prologue(t) \/ FindClass(t) \/ GetMethodID(t) \/ CallVoidMethod(t) \/ Return(t)

Spec == Init /\ [][Next]_vars

-----------------------------------------------------------------------------
\* Every variable has its type.
TypeOK ==
  \A t \in Threads :
    /\ pc[t] \in {"java", "prologue", "find", "method", "restore", "epilogue", "threw"}
    /\ rdi[t] \in Threads \cup {Null}
    /\ rsi[t] \in Objects \cup {Null, "class"}
    /\ rax[t] \in {Null, Table, "class", "method"}
    /\ frame[t] \in [env : Threads \cup {Null}, obj : Objects \cup {Null}, table : {Null, Table},
                     class : {Null, "class"}, method : {Null, "method"}]
    /\ object[t] \in Objects
    /\ pending[t] \in BOOLEAN /\ crashed \in BOOLEAN
    /\ requests[t] \in 0 .. MaxRequests

Protocol == <<"FindClass", "GetMethodID", "CallVoidMethod">>

(***************************************************************************)
(* However the requests of several threads interleave, each calls the      *)
(* three functions in their order, always with the JNIEnv of its own       *)
(* thread, and the last on the object that Java passed to this request.    *)
(***************************************************************************)
OwnCalls ==
  \A t \in Threads : \A n \in DOMAIN calls[t] :
    /\ n \in DOMAIN Protocol /\ calls[t][n][1] = Protocol[n]
    /\ calls[t][n][2] = t
    /\ n = 3 => calls[t][3][3][1] = object[t]

(***************************************************************************)
(* No request fails in silence: a thread back in main has had one greeting *)
(* for each request, unless it is there with an exception, which is then   *)
(* about its last request alone.                                           *)
(***************************************************************************)
GreetsOrThrows ==
  ~ crashed =>
    \A t \in Threads :
      /\ pc[t] = "java" => Len(greeted[t]) = requests[t] /\ ~ pending[t]
      /\ pc[t] = "threw" => Len(greeted[t]) \in {requests[t] - 1, requests[t]}
=============================================================================
