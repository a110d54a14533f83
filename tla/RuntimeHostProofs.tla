-------------------------- MODULE RuntimeHostProofs --------------------------
(***************************************************************************)
(* For any number of adapters, threads and starts: the ingress is over     *)
(* once stop or drop revoked it, a stopped host has released its sources,  *)
(* the generations of a Channel are separate, and no threads wait for one  *)
(* another.                                                                *)
(***************************************************************************)
EXTENDS RuntimeHost, Integers, TLAPS

\* A call that has its permit, and the permit.
Past(f) == f.adapter # NoOne /\ f.at # "permit"
Key(f) == <<f.adapter, f.gen>>

\* A call that is past its permit has locked it, alone, and the permit is active.
HoldsInv ==
  \A t \in Threads : \A i \in 1..Len(stacks[t]) : Past(stacks[t][i]) =>
    /\ Key(stacks[t][i]) \in active
    /\ holder[Key(stacks[t][i])] = t
    /\ \A j \in 1..Len(stacks[t]) :
         Past(stacks[t][j]) /\ Key(stacks[t][j]) = Key(stacks[t][i]) => j = i

\* The adapters that may have ingress, by where the host is.
MayBeActive(i) ==
  /\ i <= registered
  /\ \/ task.phase = "next" /\ i < task.i
     \/ task.phase = "starting" /\ i <= task.i
     \/ task.phase = "revoke" /\ i >= task.i
     \/ task = Idle /\ state = "Started"

\* Only the newest permit of an adapter is active.
ActiveInv ==
  /\ \A p \in active : p[2] = adapters[p[1]].gen
  /\ \A i \in 1..Len(Order) : Permit(Order[i]) \in active => MayBeActive(i)

\* Where the host is in an operation; a start has room for the permits it will issue.
TaskInv ==
  /\ task.op = "none" \/ task.phase = "none" => task = Idle
  /\ task.op = "start" <=> task.phase \in {"next", "starting"}
  /\ task.phase \in {"starting", "stopping"} => task.i \in 1..registered
  /\ task.phase = "sources" => task.i \in 0..registered
  /\ task.phase \in {"next", "revoke"} => task.i \in 1..(registered + 1)
  /\ task.op = "start" => \A i \in (task.i)..registered :
       task.phase = "next" \/ i > task.i => adapters[Order[i]].gen < MaxGenerations

\* Which sources have something to release.
CleanInv ==
  /\ \A a \in Adapters : adapters[a].held <=> adapters[a].state # "Stopped"
  /\ \A i \in 1..Len(Order) :
       \/ i > registered
       \/ task.op = "start" /\ (i > task.i \/ (i = task.i /\ task.phase = "next"))
       \/ task = Idle /\ state = "Stopped"
       => adapters[Order[i]].state = "Stopped"
  /\ \A i \in 1..registered :
       \/ task.phase \in {"sources", "stopping"} /\ i > task.i
       \/ task.phase = "stopping" /\ i = task.i
       => adapters[Order[i]].state \in {"Stopped", "StopFailed"}
  /\ task.phase = "starting" => adapters[At].held

IInv ==
  /\ TypeOK /\ HoldsInv /\ ActiveInv /\ TaskInv /\ CleanInv
  /\ subscribed \subseteq Registered /\ GenerationsAreSeparate

\* The threads are none of the names that stand for nobody, and Order is a sequence.
LEMMA Names ==
  /\ NoOne \notin Threads /\ Host \in Threads /\ Len(Order) \in Nat
  /\ \A i \in 1..Len(Order) : Order[i] \in Adapters
  /\ \A a \in Adapters : \E i \in 1..Len(Order) : a = Order[i]
BY HostAssumption DEF Threads, Adapters, Host, NoOne

\* The frames of short stacks.
LEMMA ShortStacks ==
  /\ \A i : i \notin 1..Len(<<>>)
  /\ \A f : <<f>>[1] = f /\ Tail(<<f>>) = <<>>
  /\ \A f, g : <<f, g>>[1] = f
OBVIOUS

\* The invariant holds before anything is registered.
LEMMA InitIInv == Init => IInv
<1> SUFFICES ASSUME Init PROVE IInv
  OBVIOUS
<1> USE Names, HostAssumption
<1>1. TypeOK
  <2>1. <<>> \in Seq(Frames)
    OBVIOUS
  <2> QED
    BY <2>1 DEF Init, TypeOK, Idle, States
<1>2. HoldsInv
  BY DEF Init, HoldsInv
<1>3. ActiveInv /\ TaskInv /\ CleanInv
  BY DEF Init, ActiveInv, TaskInv, CleanInv, Idle
<1> QED
  BY <1>1, <1>2, <1>3 DEF IInv, Init, GenerationsAreSeparate

-----------------------------------------------------------------------------
(* What the operations on a stack of calls do.                             *)

\* The innermost call goes on to its next lock.
LEMMA Moved ==
  ASSUME NEW s \in Seq(Frames), s # <<>>, NEW x \in {"permit", "bridge", "inside", "done"}
  PROVE  /\ [s EXCEPT ![1].at = x] \in Seq(Frames)
         /\ Len([s EXCEPT ![1].at = x]) = Len(s)
         /\ \A i \in 1..Len(s) : [s EXCEPT ![1].at = x][i] =
              IF i = 1 THEN [s[1] EXCEPT !.at = x] ELSE s[i]
<1>1. 1 \in 1..Len(s)
  OBVIOUS
<1>2. s[1] \in Frames
  BY <1>1
<1>3. [s[1] EXCEPT !.at = x] \in Frames
  BY <1>2 DEF Frames
<1> QED
  BY <1>1, <1>3

\* The innermost call returns.
LEMMA Popped ==
  ASSUME NEW s \in Seq(Frames), s # <<>>
  PROVE  /\ Tail(s) \in Seq(Frames) /\ Len(s) \in Nat \ {0} /\ Len(Tail(s)) = Len(s) - 1
         /\ \A i \in 1..Len(Tail(s)) : Tail(s)[i] = s[i + 1]
         /\ Head(s) = s[1] /\ Head(s) \in Frames
OBVIOUS

\* A port calls a handle.
LEMMA Pushed ==
  ASSUME NEW s \in Seq(Frames), NEW f \in Frames
  PROVE  /\ <<f>> \o s \in Seq(Frames) /\ Len(<<f>> \o s) = Len(s) + 1
         /\ \A i \in 1..(Len(s) + 1) : (<<f>> \o s)[i] = IF i = 1 THEN f ELSE s[i - 1]
<1>1. <<f>> \in Seq(Frames) /\ Len(<<f>>) = 1 /\ <<f>>[1] = f
  OBVIOUS
<1> QED
  BY <1>1

-----------------------------------------------------------------------------
(* Calls *)

\* Without active permits no call is past its permit.
LEMMA RevokedMeansOver == IInv => IngressIsOver
<1> SUFFICES ASSUME IInv, IngressRevoked PROVE IngressIsOver
  BY DEF IngressIsOver
<1>1. active = {}
  <2> SUFFICES ASSUME NEW p \in active PROVE FALSE
    OBVIOUS
  <2>1. PICK a \in Adapters, g \in 1..MaxGenerations : p = <<a, g>>
    BY DEF IInv, TypeOK, Permits
  <2>2. p = Permit(a)
    BY <2>1, Zenon DEF IInv, ActiveInv, Permit
  <2>3. PICK i \in 1..Len(Order) : a = Order[i]
    BY Names
  <2>4. MayBeActive(i)
    BY <2>2, <2>3 DEF IInv, ActiveInv
  <2> QED
    BY <2>4, Names DEF MayBeActive, IngressRevoked, IInv, TypeOK, Idle
<1> QED
  BY <1>1 DEF IngressIsOver, IInv, HoldsInv, Past

\* What a step leaves to show that only concerns the calls of threads.
LEMMA CallsIInv ==
  ASSUME IInv, UNCHANGED <<state, registered, task, adapters, active>>,
         TypeOK', HoldsInv', (subscribed \subseteq Registered)', GenerationsAreSeparate'
  PROVE  IInv'
<1>1. ActiveInv'
  BY DEF IInv, ActiveInv, Permit, MayBeActive
<1>2. TaskInv' /\ CleanInv'
  BY DEF IInv, TaskInv, CleanInv, At
<1> QED
  BY <1>1, <1>2 DEF IInv

\* ... and only those of one thread, which may lock and unlock permits.
LEMMA ThreadIInv ==
  ASSUME IInv, UNCHANGED <<state, registered, task, adapters, active>>,
         owner' \in Threads \cup {NoOne},
         NEW t \in Threads, NEW s \in Seq(Frames), stacks' = [stacks EXCEPT ![t] = s],
         holder' \in [Permits -> Threads \cup {NoOne}],
         \A p \in active : \A u \in Threads \ {t} : holder[p] = u => holder'[p] = u,
         \A i \in 1..Len(s) : Past(s[i]) =>
           /\ Key(s[i]) \in active /\ holder'[Key(s[i])] = t
           /\ \A j \in 1..Len(s) : Past(s[j]) /\ Key(s[j]) = Key(s[i]) => j = i,
         subscribed' \subseteq Channels, direct' \subseteq Channels,
         (subscribed \subseteq Registered)', GenerationsAreSeparate'
  PROVE  IInv'
<1>1. TypeOK'
  BY DEF IInv, TypeOK
<1>2. HoldsInv'
  <2> SUFFICES ASSUME NEW u \in Threads, NEW i \in 1..Len(stacks'[u]), Past(stacks'[u][i])
               PROVE  /\ Key(stacks'[u][i]) \in active'
                      /\ holder'[Key(stacks'[u][i])] = u
                      /\ \A j \in 1..Len(stacks'[u]) :
                           Past(stacks'[u][j]) /\ Key(stacks'[u][j]) = Key(stacks'[u][i]) => j = i
    BY DEF HoldsInv
  <2>1. CASE u = t
    <3>1. stacks'[u] = s
      BY <2>1 DEF IInv, TypeOK
    <3> QED
      BY <2>1, <3>1
  <2>2. CASE u # t
    <3>1. stacks'[u] = stacks[u]
      BY <2>2 DEF IInv, TypeOK
    <3>2. /\ Key(stacks[u][i]) \in active
          /\ holder[Key(stacks[u][i])] = u
          /\ \A j \in 1..Len(stacks[u]) :
               Past(stacks[u][j]) /\ Key(stacks[u][j]) = Key(stacks[u][i]) => j = i
      BY <3>1 DEF IInv, HoldsInv
    <3> QED
      BY <2>2, <3>1, <3>2
  <2> QED
    BY <2>1, <2>2
<1> QED
  BY <1>1, <1>2, CallsIInv

\* ... or does nothing to them.
LEMMA StackIInv ==
  ASSUME IInv, UNCHANGED <<state, registered, task, adapters, active, holder, subscribed, direct>>,
         owner' \in Threads \cup {NoOne},
         NEW t \in Threads, NEW s \in Seq(Frames), stacks' = [stacks EXCEPT ![t] = s],
         \A i \in 1..Len(s) : Past(s[i]) =>
           /\ Key(s[i]) \in active /\ holder[Key(s[i])] = t
           /\ \A j \in 1..Len(s) : Past(s[j]) /\ Key(s[j]) = Key(s[i]) => j = i
  PROVE  IInv'
<1>1. (subscribed \subseteq Registered)' /\ GenerationsAreSeparate'
  BY DEF IInv, GenerationsAreSeparate, Registered
<1>2. /\ holder' \in [Permits -> Threads \cup {NoOne}]
      /\ subscribed' \subseteq Channels /\ direct' \subseteq Channels
  BY DEF IInv, TypeOK
<1> QED
  BY <1>1, <1>2, ThreadIInv, Zenon

\* A thread that is in no call begins one.
LEMMA BeginIInv ==
  ASSUME IInv, NEW t \in Threads, NEW f \in Frames, ~Past(f),
         stacks' = [stacks EXCEPT ![t] = <<f>>],
         UNCHANGED <<state, registered, task, adapters, active, holder, owner, subscribed, direct>>
  PROVE  IInv'
<1>1. <<f>> \in Seq(Frames) /\ Len(<<f>>) = 1 /\ <<f>>[1] = f
  OBVIOUS
<1>2. owner' \in Threads \cup {NoOne}
  BY DEF IInv, TypeOK
<1> DEFINE s == <<f>>
<1>3. \A i \in 1..Len(s) : ~Past(s[i])
  BY <1>1
<1>4. s \in Seq(Frames) /\ stacks' = [stacks EXCEPT ![t] = s]
  BY <1>1
<1> HIDE DEF s
<1> QED
  BY <1>2, <1>3, <1>4, StackIInv, Zenon

\* The calls of sources, of callbacks and of the host.
LEMMA CallIInv ==
  ASSUME IInv, (\E a \in Callers : SourceCalls(a)) \/ CallbackCalls \/ HostCalls
  PROVE  IInv'
<1> USE Names
<1>1. CASE \E a \in Callers : SourceCalls(a)
  <2>0. PICK a \in Callers : SourceCalls(a)
    BY <1>1
  <2>1. PICK g \in 1..adapters[a].gen : Call(a, a, g)
    BY <2>0 DEF SourceCalls
  <2>2. a \in Threads /\ a \in Adapters
    BY HostAssumption DEF Threads
  <2>3. Frame(a, g, "permit") \in Frames /\ ~Past(Frame(a, g, "permit"))
    <3>1. g \in 0..MaxGenerations
      <4>1. adapters[a].gen \in 0..MaxGenerations
        BY <2>2 DEF IInv, TypeOK
      <4>2. MaxGenerations \in Nat
        BY HostAssumption
      <4> HIDE Names
      <4> QED
        BY <4>1, <4>2
    <3> QED
      BY <2>2, <3>1 DEF Frame, Frames, Past
  <2> QED
    BY <2>1, <2>2, <2>3, BeginIInv, Zenon DEF Call
<1>2. CASE CallbackCalls
  <2>1. At \in Adapters
    BY <1>2, HostAssumption DEF CallbackCalls
  <2>2. Frame(At, adapters[At].gen, "permit") \in Frames /\ ~Past(Frame(At, adapters[At].gen, "permit"))
    BY <2>1 DEF IInv, TypeOK, Frame, Frames, Past
  <2> QED
    BY <1>2, <2>2, BeginIInv, Zenon DEF CallbackCalls, Call
<1>3. CASE HostCalls
  <2>1. Frame(NoOne, 0, "bridge") \in Frames /\ ~Past(Frame(NoOne, 0, "bridge"))
    BY HostAssumption DEF Frame, Frames, Past
  <2> QED
    BY <1>3, <2>1, BeginIInv, Zenon DEF HostCalls
<1> QED
  BY <1>1, <1>2, <1>3

\* LockBridge, and the port that calls a handle.
LEMMA InsideIInv ==
  ASSUME IInv, NEW t \in Threads, LockBridge(t) \/ \E a \in Adapters : Reenter(t, a)
  PROVE  IInv'
<1> DEFINE s == stacks[t]
<1>0. s \in Seq(Frames) /\ s # <<>> /\ Head(s) = s[1]
  BY Popped, Zenon DEF IInv, TypeOK, LockBridge, Reenter, Busy
<1>1. \A i \in 1..Len(s) : Past(s[i]) =>
        /\ Key(s[i]) \in active /\ holder[Key(s[i])] = t
        /\ \A j \in 1..Len(s) : Past(s[j]) /\ Key(s[j]) = Key(s[i]) => j = i
  BY DEF IInv, HoldsInv
<1>2. ASSUME NEW x \in {"inside", "done"}, s[1].at # "permit"
      PROVE  LET n == [s EXCEPT ![1].at = x]
             IN  /\ n \in Seq(Frames) /\ Len(n) = Len(s)
                 /\ \A i \in 1..Len(s) : Past(n[i]) = Past(s[i]) /\ Key(n[i]) = Key(s[i])
  <2>1. \A i \in 1..Len(s) : [s EXCEPT ![1].at = x][i] =
              IF i = 1 THEN [s[1] EXCEPT !.at = x] ELSE s[i]
    BY <1>0, Moved
  <2>2. s[1] \in Frames
    BY <1>0, Popped
  <2>3. Past([s[1] EXCEPT !.at = x]) = Past(s[1]) /\ Key([s[1] EXCEPT !.at = x]) = Key(s[1])
    BY <1>2, <2>2 DEF Past, Key, Frames
  <2> QED
    BY <1>0, <2>1, <2>3, Moved, Zenon
<1>3. CASE LockBridge(t)
  <2> DEFINE n == [s EXCEPT ![1].at = "inside"]
  <2>1. stacks' = [stacks EXCEPT ![t] = n]
    BY <1>3 DEF LockBridge, MoveTo
  <2>2. s[1].at # "permit"
    BY <1>0, <1>3 DEF LockBridge, Top
  <2>3. n \in Seq(Frames) /\ Len(n) = Len(s) /\ \A i \in 1..Len(s) : Past(n[i]) = Past(s[i]) /\ Key(n[i]) = Key(s[i])
    BY <1>2, <2>2
  <2>4. owner' \in Threads \cup {NoOne}
    BY <1>3 DEF LockBridge
  <2> HIDE DEF n, s
  <2>5. \A i \in 1..Len(n) : Past(n[i]) =>
        /\ Key(n[i]) \in active /\ holder[Key(n[i])] = t
        /\ \A j \in 1..Len(n) : Past(n[j]) /\ Key(n[j]) = Key(n[i]) => j = i
    BY <1>1, <2>3
  <2> QED
    BY <1>3, <2>1, <2>3, <2>4, <2>5, StackIInv DEF LockBridge
<1>4. CASE \E a \in Adapters : Reenter(t, a)
  <2>1. PICK a \in Adapters : Reenter(t, a)
    BY <1>4
  <2> DEFINE n == [s EXCEPT ![1].at = "done"]
             f == Frame(a, adapters[a].gen, "permit")
  <2>2. stacks' = [stacks EXCEPT ![t] = <<f>> \o n]
    BY <2>1 DEF Reenter, MoveTo, IInv, TypeOK
  <2>3. s[1].at # "permit"
    BY <1>0, <2>1 DEF Reenter, Top
  <2>4. n \in Seq(Frames) /\ Len(n) = Len(s) /\ \A i \in 1..Len(s) : Past(n[i]) = Past(s[i]) /\ Key(n[i]) = Key(s[i])
    BY <1>2, <2>3
  <2>5. f \in Frames /\ ~Past(f)
    BY DEF IInv, TypeOK, Frame, Frames, Past
  <2>6. owner' \in Threads \cup {NoOne}
    BY <2>1 DEF Reenter, IInv, TypeOK
  <2> HIDE DEF n, s, f
  <2>7. /\ <<f>> \o n \in Seq(Frames) /\ Len(<<f>> \o n) = Len(n) + 1
        /\ \A i \in 1..(Len(n) + 1) : (<<f>> \o n)[i] = IF i = 1 THEN f ELSE n[i - 1]
    BY <2>4, <2>5, Pushed
  <2> DEFINE k == <<f>> \o n
  <2>8. k \in Seq(Frames) /\ Len(k) = Len(s) + 1 /\ Len(s) \in Nat
    BY <1>0, <2>4, <2>7
  <2>9. \A i \in 1..Len(k) : IF i = 1 THEN ~Past(k[i])
                             ELSE /\ i - 1 \in 1..Len(s)
                                  /\ Past(k[i]) = Past(s[i - 1]) /\ Key(k[i]) = Key(s[i - 1])
    BY <2>4, <2>5, <2>7, <2>8
  <2> HIDE DEF k
  <2>10. \A i \in 1..Len(k) : Past(k[i]) =>
        /\ Key(k[i]) \in active /\ holder[Key(k[i])] = t
        /\ \A j \in 1..Len(k) : Past(k[j]) /\ Key(k[j]) = Key(k[i]) => j = i
    <3> SUFFICES ASSUME NEW i \in 1..Len(k), Past(k[i])
                 PROVE  /\ Key(k[i]) \in active /\ holder[Key(k[i])] = t
                        /\ \A j \in 1..Len(k) : Past(k[j]) /\ Key(k[j]) = Key(k[i]) => j = i
      OBVIOUS
    <3>1. i # 1 /\ i - 1 \in 1..Len(s) /\ Past(s[i - 1]) /\ Key(k[i]) = Key(s[i - 1])
      BY <2>9
    <3>2. ASSUME NEW j \in 1..Len(k), Past(k[j]), Key(k[j]) = Key(k[i]) PROVE j = i
      <4>1. j # 1 /\ j - 1 \in 1..Len(s) /\ Past(s[j - 1]) /\ Key(k[j]) = Key(s[j - 1])
        BY <2>9, <3>2
      <4>2. j - 1 = i - 1
        BY <1>1, <3>1, <3>2, <4>1, Zenon
      <4> QED
        BY <2>8, <4>2
    <3> QED
      BY <1>1, <3>1, <3>2
  <2> QED
    BY <2>1, <2>2, <2>6, <2>8, <2>10, StackIInv, Zenon DEF k, Reenter
<1> QED
  BY <1>3, <1>4

\* What is known of a thread's own calls.
Holds(s, t) ==
  \A i \in 1..Len(s) : Past(s[i]) =>
    /\ Key(s[i]) \in active /\ holder[Key(s[i])] = t
    /\ \A j \in 1..Len(s) : Past(s[j]) /\ Key(s[j]) = Key(s[i]) => j = i

\* When the innermost call is gone, the others still hold their permits, and not its own.
LEMMA TailHolds ==
  ASSUME NEW t, NEW s \in Seq(Frames), s # <<>>, Holds(s, t)
  PROVE  /\ Holds(Tail(s), t)
         /\ Past(s[1]) => \A i \in 1..Len(Tail(s)) : Past(Tail(s)[i]) => Key(Tail(s)[i]) # Key(s[1])
<1>1. /\ Len(s) \in Nat \ {0} /\ Len(Tail(s)) = Len(s) - 1
      /\ \A i \in 1..Len(Tail(s)) : Tail(s)[i] = s[i + 1]
  BY Popped
<1>2. \A i \in 1..Len(Tail(s)) : i + 1 \in 1..Len(s) /\ i + 1 # 1
  BY <1>1
<1>3. ASSUME NEW i \in 1..Len(Tail(s)), Past(Tail(s)[i])
      PROVE  /\ Key(Tail(s)[i]) \in active /\ holder[Key(Tail(s)[i])] = t
             /\ \A j \in 1..Len(Tail(s)) : Past(Tail(s)[j]) /\ Key(Tail(s)[j]) = Key(Tail(s)[i]) => j = i
             /\ Past(s[1]) => Key(Tail(s)[i]) # Key(s[1])
  <2>1. Tail(s)[i] = s[i + 1] /\ i + 1 \in 1..Len(s) /\ i + 1 # 1 /\ 1 \in 1..Len(s)
    BY <1>1, <1>2
  <2>2. ASSUME NEW j \in 1..Len(Tail(s)), Past(Tail(s)[j]), Key(Tail(s)[j]) = Key(Tail(s)[i])
        PROVE  j = i
    <3>1. Tail(s)[j] = s[j + 1] /\ j + 1 \in 1..Len(s)
      BY <1>1, <1>2
    <3>2. j + 1 = i + 1
      BY <1>3, <2>1, <2>2, <3>1 DEF Holds
    <3> QED
      BY <1>1, <3>2
  <2> QED
    BY <1>3, <2>1, <2>2 DEF Holds
<1> QED
  BY <1>3 DEF Holds

\* IngressPermit::enter.
LEMMA EnterIInv ==
  ASSUME IInv, NEW t \in Threads, EnterPermit(t)
  PROVE  IInv'
<1> DEFINE s == stacks[t]
           p == <<Top(t).adapter, Top(t).gen>>
<1>0. s \in Seq(Frames) /\ s # <<>> /\ Head(s) = s[1] /\ s[1] \in Frames /\ 1 \in 1..Len(s)
  BY Popped DEF IInv, TypeOK, EnterPermit, Busy
<1>1. Holds(s, t)
  BY DEF IInv, HoldsInv, Holds
<1>2. owner' \in Threads \cup {NoOne} /\ subscribed' \subseteq Channels /\ direct' \subseteq Channels
  BY DEF EnterPermit, IInv, TypeOK
<1>3. (subscribed \subseteq Registered)' /\ GenerationsAreSeparate'
  BY DEF EnterPermit, IInv, GenerationsAreSeparate, Registered
<1>4. CASE p \notin active
  <2>1. stacks' = [stacks EXCEPT ![t] = Tail(s)] /\ holder' = holder
    BY <1>4 DEF EnterPermit, Pop
  <2>2. Tail(s) \in Seq(Frames) /\ Holds(Tail(s), t)
    BY <1>0, <1>1, TailHolds, Popped
  <2> HIDE DEF s
  <2> QED
    BY <1>2, <2>1, <2>2, StackIInv, Zenon DEF EnterPermit, Holds
<1>5. CASE p \in active
  <2> DEFINE n == [s EXCEPT ![1].at = "bridge"]
  <2>1. stacks' = [stacks EXCEPT ![t] = n] /\ holder' = [holder EXCEPT ![p] = t]
    BY <1>5 DEF EnterPermit, MoveTo
  <2>2. p \in Permits /\ holder[p] = NoOne /\ holder \in [Permits -> Threads \cup {NoOne}]
    BY <1>5 DEF EnterPermit, IInv, TypeOK
  <2>3. holder' \in [Permits -> Threads \cup {NoOne}]
    BY <2>1, <2>2
  <2>4. \A q \in active : \A u \in Threads : holder[q] = u => q # p /\ holder'[q] = u
    BY <2>1, <2>2, Names, Zenon DEF IInv, TypeOK
  <2>5. n \in Seq(Frames) /\ Len(n) = Len(s)
        /\ \A i \in 1..Len(s) : n[i] = IF i = 1 THEN [s[1] EXCEPT !.at = "bridge"] ELSE s[i]
    BY <1>0, Moved, Zenon
  <2>6. Key(n[1]) = p /\ \A i \in 2..Len(s) : n[i] = s[i]
    <3>1. Key([s[1] EXCEPT !.at = "bridge"]) = Key(s[1]) /\ Key(s[1]) = p
      BY <1>0 DEF Key, Frames, Top
    <3> QED
      BY <1>0, <2>5, <3>1
  <2>7. ~Past(s[1])
    BY <1>0 DEF EnterPermit, Top, Past
  <2>8. holder'[p] = t
    BY <2>1, <2>2
  <2> HIDE DEF n, s, p
  <2>9. ASSUME NEW i \in 1..Len(n), Past(n[i])
        PROVE  /\ Key(n[i]) \in active /\ holder'[Key(n[i])] = t
               /\ i # 1 => Key(n[i]) # p /\ i \in 1..Len(s) /\ n[i] = s[i]
    <3>1. CASE i = 1
      BY <1>5, <2>6, <2>8, <3>1
    <3>2. CASE i # 1
      <4>1. n[i] = s[i] /\ i \in 1..Len(s)
        BY <2>5, <3>2
      <4>2. Key(s[i]) \in active /\ holder[Key(s[i])] = t
        BY <1>1, <2>9, <4>1 DEF Holds
      <4> QED
        BY <2>4, <4>1, <4>2
    <3> QED
      BY <3>1, <3>2
  <2>10. ASSUME NEW i \in 1..Len(n), Past(n[i]), NEW j \in 1..Len(n), Past(n[j]), Key(n[j]) = Key(n[i])
         PROVE  j = i
    <3>1. CASE i = 1 \/ j = 1
      BY <2>6, <2>9, <2>10, <3>1
    <3>2. CASE i # 1 /\ j # 1
      BY <1>1, <2>9, <2>10, <3>2 DEF Holds
    <3> QED
      BY <3>1, <3>2
  <2>11. \A i \in 1..Len(n) : Past(n[i]) =>
           /\ Key(n[i]) \in active /\ holder'[Key(n[i])] = t
           /\ \A j \in 1..Len(n) : Past(n[j]) /\ Key(n[j]) = Key(n[i]) => j = i
    BY <2>9, <2>10
  <2>12. UNCHANGED <<state, registered, task, adapters, active>>
    BY DEF EnterPermit
  <2>13. \A q \in active : \A u \in Threads \ {t} : holder[q] = u => holder'[q] = u
    BY <2>4
  <2>14. n \in Seq(Frames)
    BY <2>5
  <2> HIDE <2>4, <2>5
  <2> QED
    BY <1>2, <1>3, <2>1, <2>3, <2>11, <2>12, <2>13, <2>14, ThreadIInv, Zenon
<1> QED
  BY <1>4, <1>5

\* A call returns, and its permit is unlocked.
LEMMA ReleaseIInv ==
  ASSUME IInv, NEW t \in Threads, Busy(t), Top(t).at # "permit",
         holder' = Released(t), stacks' = Pop(t), owner' \in Threads \cup {NoOne},
         UNCHANGED <<state, registered, task, adapters, active>>,
         subscribed' \subseteq Channels, direct' \subseteq Channels,
         (subscribed \subseteq Registered)', GenerationsAreSeparate'
  PROVE  IInv'
<1> DEFINE s == stacks[t]
           p == Key(s[1])
<1>0. s \in Seq(Frames) /\ s # <<>> /\ Head(s) = s[1] /\ s[1] \in Frames /\ 1 \in 1..Len(s)
  BY Popped DEF IInv, TypeOK, Busy
<1>1. Holds(s, t)
  BY DEF IInv, HoldsInv, Holds
<1>2. Tail(s) \in Seq(Frames) /\ Holds(Tail(s), t) /\ stacks' = [stacks EXCEPT ![t] = Tail(s)]
  BY <1>0, <1>1, TailHolds, Popped DEF Pop
<1>3. holder \in [Permits -> Threads \cup {NoOne}] /\ active \subseteq Permits
  BY DEF IInv, TypeOK
<1>4. CASE s[1].adapter = NoOne
  <2>1. holder' = holder
    BY <1>0, <1>4 DEF Released, Top
  <2> HIDE DEF s
  <2> QED
    BY <1>2, <1>3, <2>1, ThreadIInv, Zenon DEF Holds
<1>5. CASE s[1].adapter # NoOne
  <2>1. Past(s[1]) /\ holder' = [holder EXCEPT ![p] = NoOne]
    BY <1>0, <1>5 DEF Released, Top, Past, Key
  <2>2. p \in active /\ holder[p] = t
    BY <1>0, <1>1, <2>1 DEF Holds
  <2>3. \A i \in 1..Len(Tail(s)) : Past(Tail(s)[i]) => Key(Tail(s)[i]) # p
    BY <1>0, <1>1, <2>1, TailHolds, Zenon
  <2>4. holder' \in [Permits -> Threads \cup {NoOne}]
    BY <1>3, <2>1, <2>2
  <2> HIDE DEF s, p
  <2>5. \A q \in active : \A u \in Threads \ {t} : holder[q] = u => holder'[q] = u
    BY <1>3, <2>1, <2>2
  <2>6. \A i \in 1..Len(Tail(s)) : Past(Tail(s)[i]) =>
           /\ Key(Tail(s)[i]) \in active /\ holder'[Key(Tail(s)[i])] = t
           /\ \A j \in 1..Len(Tail(s)) :
                Past(Tail(s)[j]) /\ Key(Tail(s)[j]) = Key(Tail(s)[i]) => j = i
    BY <1>2, <1>3, <2>1, <2>3 DEF Holds
  <2> QED
    BY <1>2, <2>4, <2>5, <2>6, ThreadIInv, Zenon
<1> QED
  BY <1>4, <1>5

\* A refused re-entry, and the end of an operation.  While the ingress is over only a call
\* of the host itself can subscribe a Channel.
LEMMA ReturnIInv ==
  ASSUME IInv, NEW t \in Threads, RefuseReentry(t) \/ Return(t)
  PROVE  IInv'
<1>1. CASE RefuseReentry(t)
  <2>1. (subscribed \subseteq Registered)' /\ GenerationsAreSeparate'
    BY <1>1 DEF RefuseReentry, IInv, GenerationsAreSeparate, Registered
  <2>2. owner' \in Threads \cup {NoOne} /\ subscribed' \subseteq Channels /\ direct' \subseteq Channels
    BY <1>1 DEF RefuseReentry, IInv, TypeOK
  <2> QED
    BY <1>1, <2>1, <2>2, ReleaseIInv DEF RefuseReentry
<1>2. CASE Return(t)
  <2>1. subscribed' \subseteq Channels /\ direct' \subseteq Channels /\ owner' \in Threads \cup {NoOne}
    BY <1>2 DEF Return, IInv, TypeOK
  <2>2. (subscribed \subseteq Registered)'
    BY <1>2 DEF Return, IInv, Registered
  <2>3. GenerationsAreSeparate'
    <3> SUFFICES ASSUME \/ task.phase \in {"sources", "stopping"}
                        \/ task = Idle /\ state \in {"Stopped", "StopFailed", "Dropped"}
                 PROVE  subscribed' \cap Scoped \subseteq direct'
      BY <1>2 DEF Return, GenerationsAreSeparate
    <3>1. IngressRevoked
      BY DEF IngressRevoked
    <3>2. stacks[t] \in Seq(Frames) /\ stacks[t] # <<>>
      BY <1>2 DEF Return, Busy, IInv, TypeOK
    <3>3. Top(t) = stacks[t][1] /\ 1 \in 1..Len(stacks[t])
      BY <3>2, Popped DEF Top
    <3>4. Top(t).adapter = NoOne
      BY <1>2, <3>1, <3>3, RevokedMeansOver DEF Return, IngressIsOver
    <3>5. subscribed \cap Scoped \subseteq direct
      BY DEF IInv, GenerationsAreSeparate
    <3> QED
      BY <1>2, <3>4, <3>5 DEF Return
  <2> QED
    BY <1>2, <2>1, <2>2, <2>3, ReleaseIInv DEF Return
<1> QED
  BY <1>1, <1>2

-----------------------------------------------------------------------------
(* The host *)

\* A step of the host that takes no permit away from a call.
LEMMA KeepsHolds ==
  ASSUME IInv, UNCHANGED calls, \A p \in active : holder[p] # NoOne => p \in active'
  PROVE  HoldsInv'
<1> SUFFICES ASSUME NEW t \in Threads, NEW i \in 1..Len(stacks[t]), Past(stacks[t][i])
             PROVE  Key(stacks[t][i]) \in active'
  BY DEF calls, HoldsInv, IInv
<1>1. Key(stacks[t][i]) \in active /\ holder[Key(stacks[t][i])] = t
  BY DEF IInv, HoldsInv
<1> QED
  BY <1>1, Names

\* What the host is at is registered.
LEMMA AtIsRegistered ==
  ASSUME IInv, task.i \in 1..registered
  PROVE  At \in Adapters /\ task.i \in 1..Len(Order) /\ At \in Registered
BY Names DEF IInv, TypeOK, At, Registered

\* No adapter is registered twice.
LEMMA AtIsOne ==
  ASSUME task.i \in 1..Len(Order)
  PROVE  \A i \in 1..Len(Order) : Order[i] = At => i = task.i
BY HostAssumption DEF At

\* What a step means for the adapters that gives one of them another state ...
LEMMA Restated ==
  ASSUME TypeOK, At \in Adapters, NEW v \in States, adapters' = [adapters EXCEPT ![At].state = v]
  PROVE  /\ adapters' \in [Adapters -> [state : States, gen : 0..MaxGenerations, held : BOOLEAN]]
         /\ \A a \in Adapters : adapters'[a].gen = adapters[a].gen /\ adapters'[a].held = adapters[a].held
         /\ \A a \in Adapters : a # At => adapters'[a].state = adapters[a].state
         /\ adapters'[At].state = v
<1> DEFINE G == 0..MaxGenerations
<1>1. adapters \in [Adapters -> [state : States, gen : G, held : BOOLEAN]]
  BY DEF TypeOK
<1> HIDE DEF G
<1>2. /\ adapters' \in [Adapters -> [state : States, gen : G, held : BOOLEAN]]
      /\ \A a \in Adapters : adapters'[a].gen = adapters[a].gen /\ adapters'[a].held = adapters[a].held
      /\ \A a \in Adapters : a # At => adapters'[a].state = adapters[a].state
      /\ adapters'[At].state = v
  BY <1>1
<1> QED
  BY <1>2 DEF G

\* ... and one that stops and releases it.
LEMMA ReleasedOne ==
  ASSUME TypeOK, At \in Adapters, StopSucceeds
  PROVE  /\ adapters' \in [Adapters -> [state : States, gen : 0..MaxGenerations, held : BOOLEAN]]
         /\ \A a \in Adapters : adapters'[a].gen = adapters[a].gen
         /\ \A a \in Adapters : a # At => adapters'[a] = adapters[a]
         /\ adapters'[At].state = "Stopped" /\ ~adapters'[At].held
<1> DEFINE G == 0..MaxGenerations
           T == [state : States, gen : G, held : BOOLEAN]
           h == [adapters EXCEPT ![At].state = "Stopped"]
<1>1. adapters \in [Adapters -> T] /\ "Stopped" \in States
  BY DEF TypeOK, States
<1> HIDE DEF G
<1>2. h \in [Adapters -> T] /\ (\A a \in Adapters : h[a].gen = adapters[a].gen) /\ h[At].state = "Stopped"
  BY <1>1
<1>3. \A a \in Adapters : a # At => h[a] = adapters[a]
  BY <1>1
<1>4. adapters' = [h EXCEPT ![At].held = FALSE]
  BY <1>1 DEF StopSucceeds
<1> HIDE DEF h
<1>5. /\ adapters' \in [Adapters -> T]
      /\ \A a \in Adapters : adapters'[a].gen = h[a].gen
      /\ \A a \in Adapters : a # At => adapters'[a] = h[a]
      /\ adapters'[At].state = h[At].state
      /\ ~adapters'[At].held
  BY <1>2, <1>4, Zenon
<1> QED
  BY <1>2, <1>3, <1>5 DEF G

\* Registration, while nothing is started.
LEMMA RegisterIInv == ASSUME IInv, Register PROVE IInv'
<1> USE Names DEF IInv
<1>1. TypeOK'
  BY DEF Register, TypeOK, calls
<1>2. HoldsInv'
  BY KeepsHolds DEF Register
<1>3. ActiveInv'
  BY DEF Register, ActiveInv, Permit, MayBeActive, Free, Idle, TypeOK
<1>4. TaskInv'
  BY DEF Register, TaskInv, Free, Idle, TypeOK
<1>5. CleanInv'
  BY DEF Register, CleanInv, Free, Idle, TypeOK
<1>6. (subscribed \subseteq Registered)'
  BY DEF Register, Registered, TypeOK
<1>7. GenerationsAreSeparate'
  BY DEF Register, GenerationsAreSeparate
<1> QED
  BY <1>1, <1>2, <1>3, <1>4, <1>5, <1>6, <1>7, Zenon

\* start begins with all sources stopped and no permit active.
LEMMA StartIInv == ASSUME IInv, Start PROVE IInv'
<1> USE Names DEF IInv
<1>1. TypeOK'
  BY DEF Start, Goto, TypeOK, calls
<1>2. HoldsInv'
  BY KeepsHolds DEF Start
<1>3. ActiveInv'
  BY DEF Start, Goto, ActiveInv, Permit, MayBeActive, Free, Idle, TypeOK
<1>4. TaskInv'
  BY DEF Start, Goto, TaskInv, Free, Idle, TypeOK, Registered
<1>5. CleanInv'
  BY DEF Start, Goto, CleanInv, Free, Idle, TypeOK
<1>6. (subscribed \subseteq Registered)' /\ GenerationsAreSeparate'
  BY DEF Start, Goto, Registered, GenerationsAreSeparate, Idle
<1> QED
  BY <1>1, <1>2, <1>3, <1>4, <1>5, <1>6, Zenon

\* A source gets a new permit; the one of its last start is not active.
LEMMA StartAdapterIInv == ASSUME IInv, StartAdapter PROVE IInv'
<1> USE Names DEF IInv
<1>0. task.i \in 1..registered /\ task.i \in 1..Len(Order) /\ At \in Adapters
  BY AtIsRegistered DEF StartAdapter, TaskInv, TypeOK
<1>a. adapters[At].gen \in Nat /\ adapters[At].gen < MaxGenerations /\ MaxGenerations \in Nat
  <2>1. MaxGenerations \in Nat
    BY HostAssumption
  <2>2. adapters[At].gen \in 0..MaxGenerations
    BY <1>0 DEF TypeOK
  <2>3. registered \in Nat /\ task.i \in (task.i)..registered
    BY <1>0 DEF TypeOK
  <2>4. adapters[Order[task.i]].gen < MaxGenerations
    BY <2>3 DEF StartAdapter, TaskInv
  <2> QED
    BY <2>1, <2>2, <2>4 DEF At
<1>b. \A i \in 1..Len(Order) : Order[i] = At => i = task.i
  BY <1>0, AtIsOne
<1>1. TypeOK'
  BY <1>0, <1>a DEF StartAdapter, Goto, TypeOK, calls, Permits, States
<1>2. HoldsInv'
  BY KeepsHolds DEF StartAdapter
<1>3. ActiveInv'
  <2>1. Permit(At) \notin active
    <3>1. task.phase = "next" /\ task.op = "start"
      BY DEF StartAdapter
    <3>2. task.i \in 1..Len(Order) /\ At = Order[task.i]
      BY <1>0 DEF At, TypeOK
    <3>3. ~MayBeActive(task.i)
      BY <3>1, <3>2 DEF MayBeActive, Idle
    <3> QED
      BY <3>2, <3>3 DEF ActiveInv
  <2>2. \A p \in active : p[1] # At
    <3> SUFFICES ASSUME NEW p \in active, p[1] = At PROVE FALSE
      OBVIOUS
    <3>1. p = <<p[1], p[2]>> /\ p[2] = adapters[At].gen
      BY DEF TypeOK, Permits, ActiveInv
    <3> QED
      BY <2>1, <3>1 DEF Permit
  <2>3. \A a \in Adapters : adapters'[a].gen = IF a = At THEN adapters[a].gen + 1 ELSE adapters[a].gen
    BY <1>0 DEF StartAdapter, TypeOK
  <2>4. active' = active \cup {<<At, adapters[At].gen + 1>>}
    BY DEF StartAdapter
  <2>5. \A p \in active : p[1] \in Adapters
    BY DEF TypeOK, Permits
  <2>6. \A p \in active' : p[2] = adapters'[p[1]].gen
    BY <1>0, <2>2, <2>3, <2>4, <2>5 DEF ActiveInv
  <2>7. \A i \in 1..Len(Order) : Permit(Order[i])' \in active' => MayBeActive(i)'
    <3> SUFFICES ASSUME NEW i \in 1..Len(Order), Permit(Order[i])' \in active' PROVE MayBeActive(i)'
      OBVIOUS
    <3>1. CASE i = task.i
      BY <1>0, <3>1 DEF StartAdapter, Goto, MayBeActive, TypeOK
    <3>2. CASE i # task.i
      <4>1. Order[i] # At /\ Order[i] \in Adapters
        BY <1>b, <3>2
      <4>2. Permit(Order[i]) \in active
        BY <2>3, <2>4, <4>1 DEF Permit
      <4>3. MayBeActive(i)
        BY <4>2 DEF ActiveInv
      <4> QED
        BY <4>3 DEF StartAdapter, Goto, MayBeActive, TypeOK, Idle
    <3> QED
      BY <3>1, <3>2
  <2> QED
    BY <2>6, <2>7 DEF ActiveInv
<1>4. TaskInv'
  <2>1. task' = [op |-> "start", phase |-> "starting", i |-> task.i] /\ registered' = registered
    BY DEF StartAdapter, Goto
  <2>2. registered \in 0..Len(Order)
    BY DEF TypeOK
  <2>3. ASSUME NEW i \in (task.i)..registered, i > task.i
        PROVE  adapters'[Order[i]].gen < MaxGenerations
    <3>1. i \in 1..Len(Order)
      BY <1>0, <2>2
    <3>2. Order[i] # At /\ Order[i] \in Adapters
      BY <1>0, <1>b, <2>3, <3>1
    <3>3. adapters'[Order[i]] = adapters[Order[i]]
      BY <3>2 DEF StartAdapter, TypeOK
    <3> QED
      BY <2>3, <3>3 DEF StartAdapter, TaskInv
  <2> QED
    BY <1>0, <2>1, <2>2, <2>3 DEF TaskInv, Idle
<1>5. CleanInv'
  <2>1. \A a \in Adapters : adapters'[a] =
          IF a = At THEN [state |-> "StartFailed", gen |-> adapters[a].gen + 1, held |-> TRUE]
          ELSE adapters[a]
    BY <1>0, Zenon DEF StartAdapter, TypeOK
  <2>a. adapters'[At] = [state |-> "StartFailed", gen |-> adapters[At].gen + 1, held |-> TRUE]
    BY <1>0, <2>1, Zenon
  <2>b. adapters'[At].held /\ adapters'[At].state = "StartFailed"
    BY <2>a
  <2>2. ASSUME NEW a \in Adapters PROVE adapters'[a].held <=> adapters'[a].state # "Stopped"
    <3>1. CASE a = At
      BY <2>b, <3>1
    <3>2. CASE a # At
      <4>1. adapters'[a] = adapters[a]
        BY <2>1, <3>2, Zenon
      <4>2. adapters[a].held <=> adapters[a].state # "Stopped"
        BY DEF CleanInv
      <4> QED
        BY <4>1, <4>2
    <3> QED
      BY <3>1, <3>2
  <2>3. adapters'[At'].held
    <3>1. At' = At
      BY DEF StartAdapter, Goto, At
    <3> QED
      BY <2>b, <3>1
  <2>4. task' = [op |-> "start", phase |-> "starting", i |-> task.i] /\ registered' = registered
    BY DEF StartAdapter, Goto
  <2>5. \A i \in 1..Len(Order) : i > registered \/ i > task.i => adapters'[Order[i]].state = "Stopped"
    BY <1>0, <1>b, <2>1 DEF StartAdapter, CleanInv, TypeOK
  <2> QED
    BY <2>2, <2>3, <2>4, <2>5 DEF CleanInv, Idle
<1>6. (subscribed \subseteq Registered)' /\ GenerationsAreSeparate'
  BY DEF StartAdapter, Goto, Registered, GenerationsAreSeparate, Idle
<1> QED
  BY <1>1, <1>2, <1>3, <1>4, <1>5, <1>6, Zenon

\* The source's start callback returns.
LEMMA StartReturnsIInv == ASSUME IInv, StartSucceeds \/ StartFails PROVE IInv'
<1> USE Names DEF IInv
<1>0. task.i \in 1..registered /\ task.i \in 1..Len(Order) /\ At \in Adapters /\ registered \in 0..Len(Order)
  BY AtIsRegistered DEF StartSucceeds, StartFails, TaskInv, TypeOK
<1>b. \A i \in 1..Len(Order) : Order[i] = At => i = task.i
  BY <1>0, AtIsOne
<1>c. task' = [op |-> "start", phase |-> "next", i |-> task.i + 1] /\ registered' = registered
  BY DEF StartSucceeds, StartFails, Goto
<1>s. ASSUME StartSucceeds
      PROVE  /\ adapters' \in [Adapters -> [state : States, gen : 0..MaxGenerations, held : BOOLEAN]]
             /\ \A a \in Adapters : adapters'[a].gen = adapters[a].gen /\ adapters'[a].held = adapters[a].held
             /\ \A a \in Adapters : a # At => adapters'[a].state = adapters[a].state
             /\ adapters'[At].state = "Running"
  <2>1. adapters' = [adapters EXCEPT ![At].state = "Running"] /\ "Running" \in States
    BY <1>s DEF StartSucceeds, States
  <2> QED
    BY <1>0, <2>1, Restated, Zenon
<1>d. /\ \A a \in Adapters : adapters'[a].gen = adapters[a].gen /\ adapters'[a].held = adapters[a].held
      /\ \A a \in Adapters : a # At => adapters'[a].state = adapters[a].state
  BY <1>s DEF StartFails
<1>1. TypeOK'
  <2>1. adapters' \in [Adapters -> [state : States, gen : 0..MaxGenerations, held : BOOLEAN]]
    <3>1. CASE StartSucceeds
      BY <1>s, <3>1
    <3>2. CASE StartFails
      BY <3>2 DEF StartFails, TypeOK
    <3> QED
      BY <3>1, <3>2
  <2>2. task' \in [op : {"none", "start", "stop", "drop"},
                   phase : {"none", "next", "starting", "revoke", "sources", "stopping"},
                   i : 0..(Len(Order) + 1)]
    BY <1>0, <1>c
  <2>3. active' \subseteq active /\ UNCHANGED <<state, registered, calls, subscribed, direct>>
    BY DEF StartSucceeds, StartFails
  <2> QED
    BY <2>1, <2>2, <2>3 DEF TypeOK, calls
<1>2. HoldsInv'
  BY KeepsHolds DEF StartSucceeds, StartFails
<1>3. ActiveInv'
  <2>1. active' \subseteq active
    BY DEF StartSucceeds, StartFails
  <2>2. \A p \in active : p[1] \in Adapters
    BY DEF TypeOK, Permits
  <2>3. \A i \in 1..Len(Order) : MayBeActive(i) => MayBeActive(i)'
    BY <1>0, <1>c DEF MayBeActive, StartSucceeds, StartFails, Idle
  <2>4. \A i \in 1..Len(Order) : Permit(Order[i])' = Permit(Order[i])
    BY <1>d DEF Permit
  <2> QED
    BY <1>d, <2>1, <2>2, <2>3, <2>4 DEF ActiveInv
<1>4. TaskInv'
  <2>1. \A i \in (task.i + 1)..registered : adapters'[Order[i]].gen < MaxGenerations
    BY <1>0, <1>d DEF StartSucceeds, StartFails, TaskInv
  <2> QED
    BY <1>0, <1>c, <2>1 DEF TaskInv, Idle
<1>5. CleanInv'
  <2>1. task.op = "start" /\ task.phase = "starting"
    BY DEF StartSucceeds, StartFails, TaskInv
  <2>2. \A a \in Adapters : adapters'[a].held <=> adapters'[a].state # "Stopped"
    <3>1. CASE StartSucceeds
      <4>1. \A a \in Adapters : adapters[a].held <=> adapters[a].state # "Stopped"
        BY DEF CleanInv
      <4>2. adapters[At].held
        BY <2>1 DEF CleanInv
      <4> QED
        BY <1>s, <3>1, <4>1, <4>2
    <3>2. CASE StartFails
      BY <3>2 DEF StartFails, CleanInv
    <3> QED
      BY <3>1, <3>2
  <2>3. \A i \in 1..Len(Order) : i > task.i => adapters'[Order[i]].state = "Stopped"
    BY <1>0, <1>b, <1>d, <2>1 DEF CleanInv
  <2> QED
    BY <1>0, <1>c, <2>2, <2>3 DEF CleanInv, Idle
<1>6. (subscribed \subseteq Registered)' /\ GenerationsAreSeparate'
  BY <1>c DEF StartSucceeds, StartFails, Registered, GenerationsAreSeparate, Idle
<1> QED
  BY <1>1, <1>2, <1>3, <1>4, <1>5, <1>6, Zenon

\* The end of start, and the beginning of stop and drop.
LEMMA TurnIInv == ASSUME IInv, Started \/ \E op \in {"stop", "drop"} : Stop(op) PROVE IInv'
<1> USE Names DEF IInv
<1>0. UNCHANGED <<registered, adapters, active, calls, subscribed, direct>>
  BY DEF Started, Stop
<1>c. \/ task' = Idle /\ state' = "Started" /\ task.phase = "next" /\ task.i = registered + 1
      \/ /\ task = Idle /\ state' = state
         /\ \E op \in {"stop", "drop"} : task' = [op |-> op, phase |-> "revoke", i |-> 1]
  BY DEF Started, Stop, Goto, Free, TaskInv, TypeOK
<1>1. TypeOK'
  BY <1>0, <1>c DEF TypeOK, calls, Idle
<1>2. HoldsInv'
  BY <1>0, KeepsHolds
<1>3. ActiveInv'
  BY <1>0, <1>c DEF ActiveInv, MayBeActive, Permit, Idle, TypeOK
<1>4. TaskInv'
  BY <1>0, <1>c DEF TaskInv, Idle, TypeOK
<1>5. CleanInv'
  BY <1>0, <1>c DEF CleanInv, Idle, TypeOK
<1>6. (subscribed \subseteq Registered)' /\ GenerationsAreSeparate'
  BY <1>0, <1>c DEF Registered, GenerationsAreSeparate, Idle
<1> QED
  BY <1>1, <1>2, <1>3, <1>4, <1>5, <1>6, Zenon

\* revoke_all_ingress takes the permits away one by one, after the calls that have them.
LEMMA RevokeIInv == ASSUME IInv, Revoke PROVE IInv'
<1> USE Names DEF IInv
<1>0. task.i \in 1..registered /\ task.i \in 1..Len(Order) /\ At \in Adapters /\ registered \in 0..Len(Order)
  BY AtIsRegistered DEF Revoke, TaskInv, TypeOK
<1>c. task' = [op |-> task.op, phase |-> "revoke", i |-> task.i + 1] /\ task.op \in {"stop", "drop"}
  BY DEF Revoke, Goto, TaskInv, TypeOK, Idle
<1>1. TypeOK'
  BY <1>0, <1>c DEF Revoke, TypeOK, calls
<1>2. HoldsInv'
  <2>1. Permit(At) \in active => adapters[At].gen > 0
    BY HostAssumption DEF TypeOK, Permits, Permit
  <2> QED
    BY <2>1, KeepsHolds DEF Revoke
<1>3. ActiveInv'
  <2>1. ASSUME NEW i \in 1..Len(Order), Permit(Order[i]) \in active \ {Permit(At)} PROVE MayBeActive(i)'
    <3>1. i # task.i /\ MayBeActive(i)
      BY <2>1 DEF At, ActiveInv
    <3> QED
      BY <1>0, <1>c, <3>1 DEF MayBeActive, Revoke, Idle
  <2>2. active' = active \ {Permit(At)} /\ adapters' = adapters
    BY Zenon DEF Revoke
  <2>3. \A p \in active : p[2] = adapters[p[1]].gen
    BY Zenon DEF ActiveInv
  <2>4. \A a : Permit(a)' = Permit(a)
    BY <2>2, Zenon DEF Permit
  <2> HIDE DEF IInv
  <2> QED
    BY <2>1, <2>2, <2>3, <2>4, Zenon DEF ActiveInv
<1>4. TaskInv'
  BY <1>0, <1>c DEF Revoke, TaskInv, Idle
<1>5. CleanInv'
  BY <1>0, <1>c DEF Revoke, CleanInv, Idle
<1>6. (subscribed \subseteq Registered)' /\ GenerationsAreSeparate'
  BY <1>c, Zenon DEF Revoke, Registered, GenerationsAreSeparate, Idle
<1> QED
  BY <1>1, <1>2, <1>3, <1>4, <1>5, <1>6, Zenon

\* clear_source_generation_subscriptions comes when no source can call any more.
LEMMA ClearIInv == ASSUME IInv, ClearSubscriptions PROVE IInv'
<1> USE Names DEF IInv
<1>0. registered \in 0..Len(Order) /\ task.i > registered /\ task.i \in Nat
  BY DEF ClearSubscriptions, TypeOK
<1>c. task' = [op |-> task.op, phase |-> "sources", i |-> registered] /\ task.op \in {"stop", "drop"}
  BY DEF ClearSubscriptions, Goto, TaskInv, TypeOK, Idle
<1>1. TypeOK'
  BY <1>0, <1>c DEF ClearSubscriptions, TypeOK, calls
<1>2. HoldsInv'
  BY KeepsHolds DEF ClearSubscriptions
<1>3. ActiveInv'
  <2>1. \A i \in 1..Len(Order) : ~MayBeActive(i)
    BY <1>0 DEF MayBeActive, ClearSubscriptions, Idle
  <2> QED
    BY <2>1 DEF ClearSubscriptions, ActiveInv, Permit
<1>4. TaskInv'
  BY <1>0, <1>c DEF ClearSubscriptions, TaskInv, Idle
<1>5. CleanInv'
  BY <1>0, <1>c DEF ClearSubscriptions, CleanInv, Idle
<1>6. (subscribed \subseteq Registered)' /\ GenerationsAreSeparate'
  BY DEF ClearSubscriptions, Registered, GenerationsAreSeparate
<1> QED
  BY <1>1, <1>2, <1>3, <1>4, <1>5, <1>6, Zenon

\* stop passes over a source that is stopped.
LEMMA SkipIInv == ASSUME IInv, SkipAdapter PROVE IInv'
<1> USE Names DEF IInv
<1>0. task.i \in 1..registered /\ task.i \in 1..Len(Order) /\ registered \in 0..Len(Order)
  BY DEF SkipAdapter, TaskInv, TypeOK
<1>c. task' = [op |-> task.op, phase |-> "sources", i |-> task.i - 1] /\ task.op \in {"stop", "drop"}
  BY DEF SkipAdapter, Goto, TaskInv, TypeOK, Idle
<1>d. UNCHANGED <<state, registered, adapters, active, calls, subscribed, direct>>
  BY DEF SkipAdapter
<1>1. TypeOK'
  BY <1>0, <1>c, <1>d DEF TypeOK, calls
<1>2. HoldsInv'
  BY <1>d, KeepsHolds
<1>3. ActiveInv'
  <2>1. \A i \in 1..Len(Order) : ~MayBeActive(i)
    BY DEF MayBeActive, SkipAdapter, Idle
  <2> QED
    BY <1>d, <2>1 DEF ActiveInv, Permit
<1>4. TaskInv'
  BY <1>0, <1>c, <1>d DEF TaskInv, Idle
<1>5. CleanInv'
  <2>1. \A i \in 1..registered : i > task.i - 1 => adapters[Order[i]].state \in {"Stopped", "StopFailed"}
    <3> SUFFICES ASSUME NEW i \in 1..registered, i > task.i - 1
                 PROVE  adapters[Order[i]].state \in {"Stopped", "StopFailed"}
      OBVIOUS
    <3>1. CASE i = task.i
      BY <3>1 DEF SkipAdapter, At
    <3>2. CASE i > task.i
      BY <3>2, Zenon DEF SkipAdapter, CleanInv
    <3> QED
      BY <1>0, <3>1, <3>2
  <2> QED
    BY <1>0, <1>c, <1>d, <2>1 DEF CleanInv, Idle
<1>6. (subscribed \subseteq Registered)' /\ GenerationsAreSeparate'
  BY <1>c, <1>d DEF SkipAdapter, Registered, GenerationsAreSeparate, Idle
<1> QED
  BY <1>1, <1>2, <1>3, <1>4, <1>5, <1>6, Zenon

\* RegisteredAdapter::stop calls the source, which counts as failed until it returns.
LEMMA StopAdapterIInv == ASSUME IInv, StopAdapter PROVE IInv'
<1> USE Names DEF IInv
<1>0. task.i \in 1..registered /\ task.i \in 1..Len(Order) /\ At \in Adapters /\ registered \in 0..Len(Order)
  BY AtIsRegistered DEF StopAdapter, TaskInv, TypeOK
<1>b. \A i \in 1..Len(Order) : Order[i] = At => i = task.i
  BY <1>0, AtIsOne
<1>c. task' = [op |-> task.op, phase |-> "stopping", i |-> task.i] /\ task.op \in {"stop", "drop"}
  BY DEF StopAdapter, Goto, TaskInv, TypeOK, Idle
<1>d. UNCHANGED <<state, registered, calls, subscribed, direct>> /\ active' \subseteq active
  BY DEF StopAdapter
<1>f. /\ adapters' \in [Adapters -> [state : States, gen : 0..MaxGenerations, held : BOOLEAN]]
      /\ \A a \in Adapters : adapters'[a].gen = adapters[a].gen /\ adapters'[a].held = adapters[a].held
      /\ \A a \in Adapters : a # At => adapters'[a].state = adapters[a].state
      /\ adapters'[At].state = "StopFailed"
  <2>1. adapters' = [adapters EXCEPT ![At].state = "StopFailed"] /\ "StopFailed" \in States
    BY DEF StopAdapter, States
  <2> QED
    BY <1>0, <2>1, Restated, Zenon
<1>1. TypeOK'
  BY <1>0, <1>c, <1>d, <1>f DEF TypeOK, calls
<1>2. HoldsInv'
  BY KeepsHolds DEF StopAdapter
<1>3. ActiveInv'
  <2>1. \A i \in 1..Len(Order) : ~MayBeActive(i)
    BY DEF MayBeActive, StopAdapter, Idle
  <2>2. \A i \in 1..Len(Order) : Permit(Order[i])' = Permit(Order[i])
    BY <1>f DEF Permit
  <2>3. \A p \in active : p[1] \in Adapters
    BY DEF TypeOK, Permits
  <2> QED
    BY <1>d, <1>f, <2>1, <2>2, <2>3, Zenon DEF ActiveInv
<1>4. TaskInv'
  BY <1>0, <1>c, <1>d DEF TaskInv, Idle
<1>5. CleanInv'
  <2>1. ASSUME NEW a \in Adapters PROVE adapters'[a].held <=> adapters'[a].state # "Stopped"
    <3>1. adapters[a].held <=> adapters[a].state # "Stopped"
      BY DEF CleanInv
    <3>2. CASE a = At
      <4>1. adapters[a].held
        BY <3>1, <3>2 DEF StopAdapter
      <4> QED
        BY <1>f, <3>2, <4>1
    <3>3. CASE a # At
      BY <1>f, <3>1, <3>3
    <3> QED
      BY <3>2, <3>3
  <2>2. ASSUME NEW i \in 1..Len(Order), i > registered PROVE adapters'[Order[i]].state = "Stopped"
    <3>1. adapters[Order[i]].state = "Stopped"
      BY <2>2, Zenon DEF CleanInv
    <3>2. Order[i] \in Adapters
      BY Zenon
    <3>3. Order[i] # At
      BY <1>0, <1>b, <2>2
    <3> HIDE DEF IInv
    <3> QED
      BY <1>f, <3>1, <3>2, <3>3, Zenon
  <2>3. ASSUME NEW i \in 1..registered, i >= task.i
        PROVE  adapters'[Order[i]].state \in {"Stopped", "StopFailed"}
    <3>1. CASE i = task.i
      BY <1>f, <3>1, Zenon DEF At
    <3>2. CASE i # task.i
      <4>1. i > task.i /\ i \in 1..Len(Order)
        BY <1>0, <2>3, <3>2
      <4>2. Order[i] \in Adapters /\ Order[i] # At
        BY <1>b, <3>2, <4>1, Zenon
      <4>3. adapters[Order[i]].state \in {"Stopped", "StopFailed"}
        BY <4>1, Zenon DEF StopAdapter, CleanInv
      <4> HIDE DEF IInv
      <4> QED
        BY <1>f, <4>2, <4>3, Zenon
    <3> QED
      BY <3>1, <3>2, Zenon
  <2> QED
    BY <1>0, <1>c, <1>d, <2>1, <2>2, <2>3 DEF CleanInv, Idle
<1>6. (subscribed \subseteq Registered)' /\ GenerationsAreSeparate'
  BY <1>c, <1>d DEF StopAdapter, Registered, GenerationsAreSeparate, Idle
<1> QED
  BY <1>1, <1>2, <1>3, <1>4, <1>5, <1>6, Zenon

\* The source's stop callback returns.
LEMMA StopReturnsIInv == ASSUME IInv, StopSucceeds \/ StopFails PROVE IInv'
<1> USE Names DEF IInv
<1>0. task.i \in 1..registered /\ task.i \in 1..Len(Order) /\ At \in Adapters /\ registered \in 0..Len(Order)
  BY AtIsRegistered DEF StopSucceeds, StopFails, TaskInv, TypeOK
<1>c. task' = [op |-> task.op, phase |-> "sources", i |-> task.i - 1] /\ task.op \in {"stop", "drop"}
  BY DEF StopSucceeds, StopFails, Goto, TaskInv, TypeOK, Idle
<1>d. UNCHANGED <<state, registered, active, calls, subscribed, direct>>
  BY DEF StopSucceeds, StopFails
<1>f. /\ adapters' \in [Adapters -> [state : States, gen : 0..MaxGenerations, held : BOOLEAN]]
      /\ \A a \in Adapters : adapters'[a].gen = adapters[a].gen
      /\ \A a \in Adapters : adapters'[a] = adapters[a] \/ (adapters'[a].state = "Stopped" /\ ~adapters'[a].held)
  <2>1. CASE StopSucceeds
    BY <1>0, <2>1, ReleasedOne
  <2>2. CASE StopFails
    BY <2>2 DEF StopFails, TypeOK
  <2> QED
    BY <2>1, <2>2
<1>1. TypeOK'
  BY <1>0, <1>c, <1>d, <1>f DEF TypeOK, calls
<1>2. HoldsInv'
  BY <1>d, KeepsHolds
<1>3. ActiveInv'
  <2>1. \A i \in 1..Len(Order) : ~MayBeActive(i)
    BY DEF MayBeActive, StopSucceeds, StopFails, Idle
  <2>2. \A i \in 1..Len(Order) : Permit(Order[i])' = Permit(Order[i])
    BY <1>f DEF Permit
  <2>3. \A p \in active : p[1] \in Adapters
    BY DEF TypeOK, Permits
  <2> QED
    BY <1>d, <1>f, <2>1, <2>2, <2>3, Zenon DEF ActiveInv
<1>4. TaskInv'
  BY <1>0, <1>c, <1>d DEF TaskInv, Idle
<1>5. CleanInv'
  <2>1. ASSUME NEW a \in Adapters PROVE adapters'[a].held <=> adapters'[a].state # "Stopped"
    <3>1. adapters[a].held <=> adapters[a].state # "Stopped"
      BY Zenon DEF CleanInv
    <3> QED
      BY <1>f, <3>1
  <2>2. ASSUME NEW i \in 1..Len(Order), i > registered PROVE adapters'[Order[i]].state = "Stopped"
    <3>1. adapters[Order[i]].state = "Stopped"
      BY <2>2, Zenon DEF CleanInv
    <3>2. Order[i] \in Adapters
      BY Zenon
    <3> HIDE DEF IInv
    <3> QED
      BY <1>f, <3>1, <3>2, Zenon
  <2>3. \A i \in 1..registered : i > task.i - 1 => adapters'[Order[i]].state \in {"Stopped", "StopFailed"}
    BY <1>0, <1>f DEF StopSucceeds, StopFails, CleanInv
  <2> QED
    BY <1>0, <1>c, <1>d, <2>1, <2>2, <2>3 DEF CleanInv, Idle
<1>6. (subscribed \subseteq Registered)' /\ GenerationsAreSeparate'
  BY <1>c, <1>d DEF StopSucceeds, StopFails, Registered, GenerationsAreSeparate, Idle
<1> QED
  BY <1>1, <1>2, <1>3, <1>4, <1>5, <1>6, Zenon

\* The end of stop and drop: the host is Stopped only when no source failed to stop.
LEMMA EndIInv ==
  ASSUME IInv, task.phase = "sources", task.i = 0, task' = Idle,
         state' \in {"StopFailed", "Stopped", "Dropped"},
         state' = "Stopped" => \A a \in Registered : adapters[a].state # "StopFailed",
         UNCHANGED <<registered, adapters, active, calls, subscribed, direct>>
  PROVE  IInv'
<1> USE Names DEF IInv
<1>0. registered \in 0..Len(Order)
  BY DEF TypeOK
<1>1. TypeOK'
  BY DEF TypeOK, calls, Idle
<1>2. HoldsInv'
  BY KeepsHolds
<1>3. ActiveInv'
  <2>1. \A i \in 1..Len(Order) : ~MayBeActive(i)
    BY DEF MayBeActive, Idle
  <2> QED
    BY <2>1 DEF ActiveInv, Permit
<1>4. TaskInv'
  BY DEF TaskInv, Idle
<1>5. CleanInv'
  <2>1. \A i \in 1..registered : adapters[Order[i]].state \in {"Stopped", "StopFailed"}
    BY <1>0 DEF CleanInv
  <2>2. state' = "Stopped" => \A i \in 1..registered : adapters[Order[i]].state # "StopFailed"
    BY DEF Registered
  <2>3. \A i \in 1..Len(Order) : i > registered => adapters[Order[i]].state = "Stopped"
    BY DEF CleanInv
  <2>4. \A i \in 1..Len(Order) : i > registered \/ i \in 1..registered
    BY <1>0
  <2>5. state' = "Stopped" => \A i \in 1..Len(Order) : adapters[Order[i]].state = "Stopped"
    BY <2>1, <2>2, <2>3, <2>4
  <2> QED
    BY <2>3, <2>5 DEF CleanInv, Idle
<1>6. (subscribed \subseteq Registered)' /\ GenerationsAreSeparate'
  BY DEF Registered, GenerationsAreSeparate, Idle
<1> QED
  BY <1>1, <1>2, <1>3, <1>4, <1>5, <1>6, Zenon

\* Every action keeps the invariant.
LEMMA NextIInv == IInv /\ [Next]_vars => IInv'
<1> SUFFICES ASSUME IInv, [Next]_vars PROVE IInv'
  OBVIOUS
<1>1. CASE \E a \in Callers : SourceCalls(a)
  BY <1>1, CallIInv
<1>2. CASE CallbackCalls \/ HostCalls
  BY <1>2, CallIInv
<1>3. ASSUME NEW t \in Threads, EnterPermit(t) PROVE IInv'
  BY <1>3, EnterIInv
<1>4. ASSUME NEW t \in Threads, RefuseReentry(t) PROVE IInv'
  BY <1>4, ReturnIInv
<1>5. ASSUME NEW t \in Threads, LockBridge(t) PROVE IInv'
  BY <1>5, InsideIInv
<1>6. ASSUME NEW t \in Threads, Return(t) PROVE IInv'
  BY <1>6, ReturnIInv
<1>7. ASSUME NEW t \in Threads, NEW a \in Adapters, Reenter(t, a) PROVE IInv'
  BY <1>7, InsideIInv
<1>8. CASE Register
  BY <1>8, RegisterIInv
<1>9. CASE Start
  BY <1>9, StartIInv
<1>10. CASE StartAdapter
  BY <1>10, StartAdapterIInv
<1>11. CASE StartSucceeds \/ StartFails
  BY <1>11, StartReturnsIInv
<1>12. CASE Started \/ \E op \in {"stop", "drop"} : Stop(op)
  BY <1>12, TurnIInv
<1>13. CASE Revoke
  BY <1>13, RevokeIInv
<1>14. CASE ClearSubscriptions
  BY <1>14, ClearIInv
<1>15. CASE SkipAdapter
  BY <1>15, SkipIInv
<1>16. CASE StopAdapter
  BY <1>16, StopAdapterIInv
<1>17. CASE StopSucceeds \/ StopFails
  BY <1>17, StopReturnsIInv
<1>18. CASE Stopped
  BY <1>18, EndIInv DEF Stopped
<1>19. CASE Dropped
  BY <1>19, EndIInv DEF Dropped
<1>20. CASE UNCHANGED vars
  <2>1. HoldsInv'
    BY <1>20, KeepsHolds DEF vars, calls
  <2> QED
    BY <1>20, <2>1, CallsIInv, ZenonT(20) DEF vars, IInv, TypeOK, Registered, GenerationsAreSeparate
<1> QED
  BY <1>1, <1>2, <1>3, <1>4, <1>5, <1>6, <1>7, <1>8, <1>9, <1>10, <1>11, <1>12, <1>13,
     <1>14, <1>15, <1>16, <1>17, <1>18, <1>19, <1>20 DEF Next

\* What the three theorems below rest on.
THEOREM HostInvariant == Spec => []IInv
BY InitIInv, NextIInv, PTL DEF Spec

\* Once stop or drop of the runtime host revoked the ingress, no source's call is past
\* its permit: revoke waits for the calls that entered (IngressPermit::enter, revoke).
THEOREM IngressIsOverAlways == Spec => []IngressIsOver
BY HostInvariant, RevokedMeansOver, PTL

\* A host that calls itself Stopped has released every source, and a start never meets
\* a source that still has something to release (RuntimeHost::start, stop).
THEOREM StoppedIsCleanAlways == Spec => []StoppedIsClean
<1>1. IInv => StoppedIsClean
  <2> SUFFICES ASSUME IInv PROVE StoppedIsClean
    OBVIOUS
  <2>1. \A a \in Adapters : adapters[a].held <=> adapters[a].state # "Stopped"
    BY DEF IInv, CleanInv
  <2>2. ASSUME state = "Stopped", task = Idle, NEW a \in Adapters PROVE ~adapters[a].held
    <3>1. PICK i \in 1..Len(Order) : a = Order[i]
      BY Names
    <3>2. adapters[Order[i]].state = "Stopped"
      BY <2>2 DEF IInv, CleanInv
    <3> QED
      BY <2>1, <3>1, <3>2
  <2>3. ASSUME task.op = "start", NEW i \in 1..registered, adapters[Order[i]].held
        PROVE  i < task.i \/ (i = task.i /\ task.phase = "starting")
    <3>1. i \in 1..Len(Order) /\ Order[i] \in Adapters /\ task.i \in Nat
      BY Names DEF IInv, TypeOK
    <3>2. adapters[Order[i]].state # "Stopped"
      BY <2>1, <2>3, <3>1
    <3>3. ~(i > task.i \/ (i = task.i /\ task.phase = "next"))
      BY <2>3, <3>1, <3>2 DEF IInv, CleanInv
    <3>4. task.phase \in {"next", "starting"}
      BY <2>3 DEF IInv, TaskInv
    <3> QED
      BY <3>1, <3>3, <3>4
  <2> QED
    BY <2>1, <2>2, <2>3 DEF StoppedIsClean
<1> QED
  BY <1>1, HostInvariant, PTL

\* No subscription a Channel made in one generation of a SourceGeneration source lasts
\* beyond it (clear_source_generation_subscriptions).
THEOREM GenerationsAreSeparateAlways == Spec => []GenerationsAreSeparate
<1>1. IInv => GenerationsAreSeparate
  BY DEF IInv
<1> QED
  BY <1>1, HostInvariant, PTL

-----------------------------------------------------------------------------
(* Who waits for whom *)

\* The calls a thread t can be in while o owns the Bridge: none; one of a source's handle
\* or of the host, which owns the Bridge when it is inside; or below it one of a port,
\* which is refused before it gets inside.
Shaped(s, t, o) ==
  \/ s = <<>> /\ o # t
  \/ \E f \in Frames :
       /\ s = <<f>>
       /\ f.adapter \in Callers \cup {NoOne}
       /\ IF f.adapter = NoOne THEN f.at # "permit" ELSE f.gen > 0
       /\ f.at \in {"inside", "done"} <=> o = t
  \/ \E f, g \in Frames :
       /\ s = <<f, g>>
       /\ f.adapter \in Reentrant /\ f.gen > 0 /\ f.at \in {"permit", "bridge"}
       /\ g.adapter \in Callers \cup {NoOne} /\ g.at = "done"
       /\ g.adapter # NoOne => g.gen > 0
       /\ o = t

\* An adapter that was started has a permit.
GenInv ==
  /\ \A a \in Adapters : adapters[a].held => adapters[a].gen > 0
  /\ task.phase \in {"starting", "stopping"} => adapters[At].gen > 0

\* Some call of s is past the permit p.
Has(s, p) == \E i \in 1..Len(s) : Past(s[i]) /\ Key(s[i]) = p

\* Every thread's calls have this shape, and only a call that is past a permit holds it.
WaitInv ==
  /\ \A t \in Threads : Shaped(stacks[t], t, owner)
  /\ \A p \in Permits : holder[p] \in Threads => Has(stacks[holder[p]], p)

\* One thread moves on; it takes the Bridge, leaves it, or does neither.
LEMMA ThreadWaits ==
  ASSUME TypeOK, WaitInv, NEW t \in Threads, NEW s,
         stacks' = [stacks EXCEPT ![t] = s], Shaped(s, t, owner'),
         \/ owner' = owner
         \/ owner = NoOne /\ owner' = t
         \/ owner = t /\ owner' = NoOne,
         \A p \in Permits : holder'[p] \in Threads =>
           IF holder'[p] = t THEN Has(s, p) ELSE holder'[p] = holder[p]
  PROVE  WaitInv'
<1>1. \A u \in Threads : stacks'[u] = IF u = t THEN s ELSE stacks[u]
  BY DEF TypeOK
<1>2. \A u \in Threads : u # t => ((owner' = u) <=> (owner = u))
  BY Names
<1>3. ASSUME NEW u \in Threads PROVE Shaped(stacks'[u], u, owner')
  <2>1. CASE u = t
    BY <1>1, <2>1
  <2>2. CASE u # t
    <3>1. stacks'[u] = stacks[u] /\ ((owner' = u) <=> (owner = u))
      BY <1>1, <1>2, <2>2
    <3>2. Shaped(stacks[u], u, owner)
      BY DEF WaitInv
    <3> QED BY <3>1, <3>2 DEF Shaped
  <2> QED BY <2>1, <2>2
<1>4. ASSUME NEW p \in Permits, holder'[p] \in Threads PROVE Has(stacks'[holder'[p]], p)
  <2>1. CASE holder'[p] = t
    BY <1>1, <1>4, <2>1
  <2>2. CASE holder'[p] # t
    <3>1. holder'[p] = holder[p] /\ stacks'[holder'[p]] = stacks[holder[p]]
      BY <1>1, <1>4, <2>2
    <3> QED BY <1>4, <3>1 DEF WaitInv
  <2> QED BY <2>1, <2>2
<1> QED BY <1>3, <1>4, Zenon DEF WaitInv

\* A thread begins a call of a handle, or the host one of its own.
LEMMA CallWaits ==
  ASSUME IInv, GenInv, WaitInv,
         (\E a \in Callers : SourceCalls(a)) \/ CallbackCalls \/ HostCalls
  PROVE  WaitInv'
<1>1. PICK t \in Threads, f \in Frames :
        /\ stacks[t] = <<>> /\ stacks' = [stacks EXCEPT ![t] = <<f>>]
        /\ f.adapter \in Callers \cup {NoOne}
        /\ IF f.adapter = NoOne THEN f.at # "permit" ELSE f.gen > 0
        /\ f.at \in {"permit", "bridge"}
        /\ owner' = owner /\ holder' = holder
  <2>1. ASSUME NEW a \in Callers, SourceCalls(a)
        PROVE  \E t \in Threads, f \in Frames :
                 /\ stacks[t] = <<>> /\ stacks' = [stacks EXCEPT ![t] = <<f>>]
                 /\ f.adapter \in Callers \cup {NoOne}
                 /\ IF f.adapter = NoOne THEN f.at # "permit" ELSE f.gen > 0
                 /\ f.at \in {"permit", "bridge"}
                 /\ owner' = owner /\ holder' = holder
    <3>1. PICK g \in 1..adapters[a].gen : Call(a, a, g)
      BY <2>1 DEF SourceCalls
    <3>2. a \in Adapters /\ a # NoOne /\ adapters[a].gen \in 0..MaxGenerations
      BY HostAssumption DEF IInv, TypeOK
    <3>3. g \in 0..MaxGenerations /\ g > 0
      BY <3>2, HostAssumption
    <3>4. Frame(a, g, "permit") \in Frames
      BY <3>2, <3>3 DEF Frame, Frames
    <3> QED BY <3>1, <3>2, <3>3, <3>4, ZenonT(20) DEF Call, Busy, Frame, Threads
  <2>2. ASSUME CallbackCalls
        PROVE  \E t \in Threads, f \in Frames :
                 /\ stacks[t] = <<>> /\ stacks' = [stacks EXCEPT ![t] = <<f>>]
                 /\ f.adapter \in Callers \cup {NoOne}
                 /\ IF f.adapter = NoOne THEN f.at # "permit" ELSE f.gen > 0
                 /\ f.at \in {"permit", "bridge"}
                 /\ owner' = owner /\ holder' = holder
    <3>1. At \in Callers /\ Call(Host, At, adapters[At].gen)
      BY <2>2 DEF CallbackCalls
    <3>2. At \in Adapters /\ At # NoOne /\ adapters[At].gen \in 0..MaxGenerations
      BY <3>1, HostAssumption DEF IInv, TypeOK
    <3>3. Frame(At, adapters[At].gen, "permit") \in Frames
      BY <3>2 DEF Frame, Frames
    <3>4. adapters[At].gen > 0
      BY <2>2 DEF GenInv, CallbackCalls
    <3> QED BY <3>1, <3>2, <3>3, <3>4, Names, Zenon DEF Call, Busy, Frame
  <2>3. ASSUME HostCalls
        PROVE  \E t \in Threads, f \in Frames :
                 /\ stacks[t] = <<>> /\ stacks' = [stacks EXCEPT ![t] = <<f>>]
                 /\ f.adapter \in Callers \cup {NoOne}
                 /\ IF f.adapter = NoOne THEN f.at # "permit" ELSE f.gen > 0
                 /\ f.at \in {"permit", "bridge"}
                 /\ owner' = owner /\ holder' = holder
    <3>1. Frame(NoOne, 0, "bridge") \in Frames
      BY HostAssumption DEF Frame, Frames
    <3> QED BY <2>3, <3>1, Names, Zenon DEF HostCalls, Free, Frame
  <2> QED BY <2>1, <2>2, <2>3
<1>2. owner # t
  <2>1. Shaped(<<>>, t, owner)
    BY <1>1, Zenon DEF WaitInv
  <2> QED BY <2>1 DEF Shaped
<1>3. Shaped(<<f>>, t, owner')
  BY <1>1, <1>2 DEF Shaped
<1>4. \A p \in Permits : holder'[p] \in Threads =>
           IF holder'[p] = t THEN Has(<<f>>, p) ELSE holder'[p] = holder[p]
  <2> SUFFICES ASSUME NEW p \in Permits, holder[p] = t PROVE FALSE
    BY <1>1
  <2>1. Has(<<>>, p)
    BY <1>1 DEF WaitInv
  <2> QED BY <2>1 DEF Has
<1> QED BY <1>1, <1>3, <1>4, ThreadWaits, Zenon DEF IInv

\* What remains when the innermost call of s returns; it gave up its permit before.
LEMMA TailHas ==
  ASSUME NEW s \in Seq(Frames), s # <<>>, NEW p, Has(s, p), ~(Past(s[1]) /\ Key(s[1]) = p)
  PROVE  Has(Tail(s), p)
<1>1. PICK i \in 1..Len(s) : Past(s[i]) /\ Key(s[i]) = p
  BY DEF Has
<1>2. i # 1
  BY <1>1
<1>3. /\ Len(s) \in Nat \ {0} /\ Len(Tail(s)) = Len(s) - 1
      /\ \A j \in 1..Len(Tail(s)) : Tail(s)[j] = s[j + 1]
  BY Popped
<1>4. i - 1 \in 1..Len(Tail(s)) /\ (i - 1) + 1 = i
  BY <1>2, <1>3
<1>5. Tail(s)[i - 1] = s[i]
  BY <1>3, <1>4
<1> QED BY <1>1, <1>4, <1>5 DEF Has

\* The innermost call returns without having been inside the Bridge (IngressPermit::enter
\* that finds the permit revoked, SharedBridge::access that refuses).
LEMMA TailShaped ==
  ASSUME NEW s, NEW t, NEW o, Shaped(s, t, o), s # <<>>, s[1].at \in {"permit", "bridge"}
  PROVE  Shaped(Tail(s), t, o)
<1>1. CASE \E f \in Frames : s = <<f>> /\ (f.at \in {"inside", "done"} <=> o = t)
  <2>1. Tail(s) = <<>> /\ o # t
    BY <1>1
  <2> QED BY <2>1 DEF Shaped
<1>2. CASE \E f, g \in Frames : /\ s = <<f, g>> /\ g.adapter \in Callers \cup {NoOne}
                                /\ g.adapter # NoOne => g.gen > 0
                                /\ g.at = "done" /\ o = t
  <2>1. PICK f, g \in Frames : /\ s = <<f, g>> /\ g.adapter \in Callers \cup {NoOne}
                               /\ g.adapter # NoOne => g.gen > 0
                               /\ g.at = "done" /\ o = t
    BY <1>2
  <2>2. Tail(s) = <<g>>
    BY <2>1
  <2> QED BY <2>1, <2>2 DEF Shaped
<1> QED BY <1>1, <1>2 DEF Shaped

\* IngressPermit::enter: the call holds its permit from here on, or returns.
LEMMA EnterWaits ==
  ASSUME IInv, WaitInv, NEW t \in Threads, EnterPermit(t)
  PROVE  WaitInv'
<1> DEFINE s == stacks[t]
           p == <<Top(t).adapter, Top(t).gen>>
<1>0. /\ s \in Seq(Frames) /\ s # <<>> /\ Head(s) = s[1] /\ s[1] \in Frames /\ 1 \in 1..Len(s)
      /\ TypeOK /\ s[1].at = "permit" /\ owner' = owner /\ Shaped(s, t, owner)
      /\ \A q \in Permits : holder[q] = t => Has(s, q)
  <2>1. TypeOK /\ s \in Seq(Frames)
    BY DEF IInv, TypeOK
  <2>2. s # <<>> /\ Head(s).at = "permit" /\ owner' = owner
    BY DEF EnterPermit, Busy, Top
  <2>3. Head(s) = s[1] /\ s[1] \in Frames /\ 1 \in 1..Len(s)
    BY <2>1, <2>2, Popped
  <2>4. Shaped(s, t, owner) /\ \A q \in Permits : holder[q] = t => Has(s, q)
    BY DEF WaitInv
  <2> QED BY <2>1, <2>2, <2>3, <2>4, Zenon
<1>1. CASE p \notin active
  <2>1. stacks' = [stacks EXCEPT ![t] = Tail(s)] /\ holder' = holder
    BY <1>1 DEF EnterPermit, Pop
  <2>2. Shaped(Tail(s), t, owner')
    BY <1>0, TailShaped, Zenon
  <2>3. \A q \in Permits : holder[q] = t => Has(Tail(s), q)
    <3>1. ~Past(s[1])
      BY <1>0 DEF Past
    <3> QED BY <1>0, <3>1, TailHas, Zenon
  <2> HIDE DEF s
  <2> QED BY <1>0, <2>1, <2>2, <2>3, ThreadWaits, ZenonT(20)
<1>2. CASE p \in active
  <2> DEFINE n == [s EXCEPT ![1].at = "bridge"]
  <2>1. stacks' = [stacks EXCEPT ![t] = n] /\ holder' = [holder EXCEPT ![p] = t]
    BY <1>0, <1>2 DEF EnterPermit, MoveTo, TypeOK
  <2>2. /\ Len(n) = Len(s)
        /\ \A i \in 1..Len(s) : n[i] = IF i = 1 THEN [s[1] EXCEPT !.at = "bridge"] ELSE s[i]
    BY <1>0, Moved
  <2>3. PICK h \in Frames : h = [s[1] EXCEPT !.at = "bridge"]
    BY <1>0, Zenon DEF Frames
  <2>4. h.at = "bridge" /\ h.adapter = s[1].adapter /\ h.gen = s[1].gen
    BY <1>0, <2>3 DEF Frames
  <2>5. Shaped(n, t, owner')
    <3>1. CASE \E f \in Frames : s = <<f>> /\ f.adapter \in Callers \cup {NoOne}
                 /\ (f.adapter # NoOne => f.gen > 0)
                 /\ (f.at \in {"inside", "done"} <=> owner = t)
      <4>1. n = <<h>>
        BY <2>3, <3>1
      <4>2. owner # t
        BY <1>0, <3>1
      <4> QED BY <1>0, <2>4, <3>1, <4>1, <4>2 DEF Shaped
    <3>2. CASE \E f, g \in Frames :
                 /\ s = <<f, g>> /\ f.adapter \in Reentrant /\ f.gen > 0
                 /\ g.adapter \in Callers \cup {NoOne} /\ g.at = "done" /\ owner = t
                 /\ g.adapter # NoOne => g.gen > 0
      <4>1. PICK f, g \in Frames :
                 /\ s = <<f, g>> /\ f.adapter \in Reentrant /\ f.gen > 0
                 /\ g.adapter \in Callers \cup {NoOne} /\ g.at = "done" /\ owner = t
                 /\ g.adapter # NoOne => g.gen > 0
        BY <3>2
      <4>2. n = <<h, g>>
        BY <2>3, <4>1
      <4> QED BY <1>0, <2>4, <4>1, <4>2 DEF Shaped
    <3> QED BY <1>0, <3>1, <3>2, Zenon DEF Shaped
  <2>6. holder \in [Permits -> Threads \cup {NoOne}]
    BY <1>0 DEF TypeOK
  <2>7. s[1].adapter # NoOne
    <3>1. s[1].adapter = NoOne => s[1].at # "permit"
      <4>1. CASE \E f \in Frames : s = <<f>> /\ (f.adapter = NoOne => f.at # "permit")
        BY <4>1, ShortStacks, Zenon
      <4>2. CASE \E f, g \in Frames : s = <<f, g>> /\ f.adapter \in Reentrant
        <5>1. PICK f, g \in Frames : s = <<f, g>> /\ f.adapter \in Reentrant
          BY <4>2, Zenon
        <5>2. f.adapter # NoOne
          BY <5>1, HostAssumption, Zenon
        <5>3. s[1] = f
          BY <5>1, ShortStacks, Zenon
        <5> QED BY <5>2, <5>3, Zenon
      <4> HIDE DEF s
      <4> QED BY <1>0, <4>1, <4>2, Zenon DEF Shaped
    <3> QED BY <1>0, <3>1, Zenon
  <2>8. \A q \in Permits : holder'[q] \in Threads =>
           IF holder'[q] = t THEN Has(n, q) ELSE holder'[q] = holder[q]
    <3> SUFFICES ASSUME NEW q \in Permits, holder'[q] = t \/ q = p
                 PROVE  Has(n, q)
      BY <2>1, <2>6
    <3>1. CASE q = p
      <4>1. n[1] = h
        BY <1>0, <2>2, <2>3
      <4>2. Past(h) /\ Key(h) = p
        BY <1>0, <2>4, <2>7, Zenon DEF Past, Key, Top
      <4> QED BY <1>0, <2>2, <3>1, <4>1, <4>2 DEF Has
    <3>2. CASE q # p
      <4>1. Has(s, q)
        BY <1>0, <2>1, <2>6, <3>2
      <4>2. PICK i \in 1..Len(s) : Past(s[i]) /\ Key(s[i]) = q
        BY <4>1 DEF Has
      <4>3. i # 1
        BY <1>0, <4>2, ZenonT(20) DEF Past
      <4> QED BY <2>2, <4>2, <4>3 DEF Has
    <3> QED BY <3>1, <3>2
  <2> HIDE DEF n
  <2> QED BY <1>0, <2>1, <2>5, <2>8, ThreadWaits, Zenon
<1> QED BY <1>1, <1>2

\* SharedBridge::access: the thread that gets the Bridge is in one call.
LEMMA LockWaits ==
  ASSUME IInv, WaitInv, NEW t \in Threads, LockBridge(t)
  PROVE  WaitInv'
<1> DEFINE s == stacks[t]
<1>0. /\ TypeOK /\ s # <<>> /\ s[1].at = "bridge" /\ Shaped(s, t, owner)
      /\ owner = NoOne /\ owner' = t /\ holder' = holder
      /\ \A q \in Permits : holder[q] = t => Has(s, q)
  BY Popped DEF IInv, TypeOK, LockBridge, Busy, Top, WaitInv
<1>1. PICK f \in Frames : /\ s = <<f>> /\ f.adapter \in Callers \cup {NoOne}
                          /\ f.adapter # NoOne => f.gen > 0
  BY <1>0, Names DEF Shaped
<1>2. PICK h \in Frames : h = [f EXCEPT !.at = "inside"]
  BY Zenon DEF Frames
<1>3. h.at = "inside" /\ h.adapter = f.adapter /\ h.gen = f.gen
  BY <1>2 DEF Frames
<1>4. stacks' = [stacks EXCEPT ![t] = <<h>>]
  <2>1. stacks' = [stacks EXCEPT ![t] = [s EXCEPT ![1].at = "inside"]]
    BY <1>0 DEF LockBridge, MoveTo, TypeOK
  <2>2. [s EXCEPT ![1].at = "inside"] = <<h>>
    BY <1>1, <1>2
  <2> QED BY <2>1, <2>2, Zenon
<1>5. Shaped(<<h>>, t, owner')
  BY <1>0, <1>1, <1>3 DEF Shaped
<1>6. ASSUME NEW q \in Permits, holder[q] = t PROVE Has(<<h>>, q)
  <2>1. Has(<<f>>, q)
    BY <1>0, <1>1, <1>6, Zenon
  <2>2. Past(f) /\ Key(f) = q
    BY <2>1 DEF Has
  <2>3. Past(h) /\ Key(h) = q
    BY <1>3, <2>2 DEF Past, Key
  <2> QED BY <2>3 DEF Has
<1> HIDE DEF s
<1> QED BY <1>0, <1>4, <1>5, <1>6, ThreadWaits, Zenon

\* A port calls its handle on the thread that is inside the Bridge.
LEMMA ReenterWaits ==
  ASSUME IInv, WaitInv, NEW t \in Threads, NEW a \in Adapters, Reenter(t, a)
  PROVE  WaitInv'
<1> DEFINE s == stacks[t]
<1>0. /\ TypeOK /\ s # <<>> /\ s[1].at = "inside" /\ Shaped(s, t, owner)
      /\ a \in Reentrant /\ owner' = owner /\ holder' = holder
      /\ \A q \in Permits : holder[q] = t => Has(s, q)
  BY Popped DEF IInv, TypeOK, Reenter, Busy, Top, WaitInv
<1>1. PICK f \in Frames : /\ s = <<f>> /\ f.adapter \in Callers \cup {NoOne}
                          /\ f.adapter # NoOne => f.gen > 0
                          /\ f.at = "inside" /\ owner = t
  <2>1. CASE \E f \in Frames :
               /\ s = <<f>>
               /\ f.adapter \in Callers \cup {NoOne}
               /\ IF f.adapter = NoOne THEN f.at # "permit" ELSE f.gen > 0
               /\ f.at \in {"inside", "done"} <=> owner = t
    <3>1. PICK f \in Frames :
               /\ s = <<f>>
               /\ f.adapter \in Callers \cup {NoOne}
               /\ IF f.adapter = NoOne THEN f.at # "permit" ELSE f.gen > 0
               /\ f.at \in {"inside", "done"} <=> owner = t
      BY <2>1, Zenon
    <3>2. s[1] = f
      BY <3>1, ShortStacks, Zenon
    <3> HIDE DEF s
    <3> QED BY <1>0, <3>1, <3>2, Zenon
  <2>2. CASE \E f, g \in Frames : s = <<f, g>> /\ f.at \in {"permit", "bridge"}
    <3>1. PICK f, g \in Frames : s = <<f, g>> /\ f.at \in {"permit", "bridge"}
      BY <2>2, Zenon
    <3>2. s[1] = f
      BY <3>1, ShortStacks, Zenon
    <3> HIDE DEF s
    <3> QED BY <1>0, <3>1, <3>2
  <2> HIDE DEF s
  <2> QED BY <1>0, <2>1, <2>2, Zenon DEF Shaped
<1>2. PICK h \in Frames : h = [f EXCEPT !.at = "done"]
  BY Zenon DEF Frames
<1>3. h.at = "done" /\ h.adapter = f.adapter /\ h.gen = f.gen
  BY <1>2 DEF Frames
<1>4. PICK g \in Frames : g = Frame(a, adapters[a].gen, "permit")
  BY <1>0, ZenonT(20) DEF Frame, Frames, TypeOK
<1>5. g.adapter = a /\ g.at = "permit" /\ g.gen > 0
  BY <1>4, Zenon DEF Frame, Reenter
<1>6. stacks' = [stacks EXCEPT ![t] = <<g, h>>]
  <2>1. MoveTo(t, "done")[t] = [s EXCEPT ![1].at = "done"]
    BY <1>0 DEF MoveTo, TypeOK
  <2>2. [s EXCEPT ![1].at = "done"] = <<h>>
    BY <1>1, <1>2
  <2>3. stacks' = [stacks EXCEPT ![t] = <<g>> \o <<h>>]
    BY <1>4, <2>1, <2>2, Zenon DEF Reenter
  <2>4. <<g>> \o <<h>> = <<g, h>>
    <3>1. <<g>> \in Seq(Frames) /\ <<h>> \in Seq(Frames) /\ <<g, h>> \in Seq(Frames)
      OBVIOUS
    <3>2. /\ <<g>> \o <<h>> \in Seq(Frames) /\ Len(<<g>> \o <<h>>) = 2
          /\ (<<g>> \o <<h>>)[1] = g /\ (<<g>> \o <<h>>)[2] = h
      BY <3>1, Pushed
    <3>3. PICK x \in Seq(Frames) : x = <<g>> \o <<h>>
      BY <3>2, Zenon
    <3>4. PICK y \in Seq(Frames) : y = <<g, h>>
      BY <3>1, Zenon
    <3>5. Len(x) = 2 /\ Len(y) = 2 /\ x[1] = y[1] /\ x[2] = y[2]
      BY <3>2, <3>3, <3>4
    <3>6. \A i \in 1..Len(x) : x[i] = y[i]
      BY <3>5
    <3>7. x = y
      BY <3>5, <3>6
    <3> QED BY <3>3, <3>4, <3>7, Zenon
  <2> QED BY <2>3, <2>4, Zenon
<1>7. Shaped(<<g, h>>, t, owner')
  BY <1>0, <1>1, <1>3, <1>5, Zenon DEF Shaped
<1>8. ASSUME NEW q \in Permits, holder[q] = t PROVE Has(<<g, h>>, q)
  <2>1. Has(<<f>>, q)
    BY <1>0, <1>1, <1>8, Zenon
  <2>2. Past(f) /\ Key(f) = q
    BY <2>1 DEF Has
  <2>3. Past(h) /\ Key(h) = q
    BY <1>3, <2>2 DEF Past, Key
  <2>4. Len(<<g, h>>) = 2 /\ <<g, h>>[2] = h
    OBVIOUS
  <2> QED BY <2>3, <2>4 DEF Has
<1> HIDE DEF s
<1> QED BY <1>0, <1>6, <1>7, <1>8, ThreadWaits, ZenonT(20)

\* A call returns, from the Bridge or refused by it, and releases its permit.
LEMMA ReturnWaits ==
  ASSUME IInv, WaitInv, NEW t \in Threads, Return(t) \/ RefuseReentry(t)
  PROVE  WaitInv'
<1> DEFINE s == stacks[t]
<1>0. /\ TypeOK /\ s \in Seq(Frames) /\ s # <<>> /\ Shaped(s, t, owner)
      /\ Top(t) = s[1] /\ s[1] \in Frames
      /\ holder' = Released(t) /\ stacks' = [stacks EXCEPT ![t] = Tail(s)]
      /\ holder \in [Permits -> Threads \cup {NoOne}]
      /\ \A q \in Permits : holder[q] = t => Has(s, q)
  <2>1. TypeOK /\ s \in Seq(Frames) /\ holder \in [Permits -> Threads \cup {NoOne}]
    BY DEF IInv, TypeOK
  <2>2. s # <<>> /\ Top(t) = Head(s) /\ holder' = Released(t)
          /\ stacks' = [stacks EXCEPT ![t] = Tail(s)]
    BY DEF Return, RefuseReentry, Busy, Top, Pop
  <2>3. Head(s) = s[1] /\ s[1] \in Frames
    BY <2>1, <2>2, Popped
  <2>4. Shaped(s, t, owner) /\ \A q \in Permits : holder[q] = t => Has(s, q)
    BY DEF WaitInv
  <2> QED BY <2>1, <2>2, <2>3, <2>4, Zenon
<1>1. Shaped(Tail(s), t, owner') /\ (owner' = owner \/ (owner = t /\ owner' = NoOne))
  <2>1. CASE RefuseReentry(t)
    <3>1. s[1].at \in {"permit", "bridge"} /\ owner' = owner
      BY <1>0, <2>1, Zenon DEF RefuseReentry
    <3> QED BY <1>0, <3>1, TailShaped, Zenon
  <2>2. CASE Return(t)
    <3>1. s[1].at \in {"inside", "done"} /\ owner' = NoOne
      BY <1>0, <2>2, Zenon DEF Return
    <3>2. PICK f \in Frames : s = <<f>> /\ owner = t
      BY <1>0, <3>1 DEF Shaped
    <3>3. Tail(s) = <<>>
      BY <3>2, ShortStacks, Zenon
    <3> QED BY <3>1, <3>2, <3>3, Names, Zenon DEF Shaped
  <2> QED BY <2>1, <2>2
<1>2. ASSUME NEW q \in Permits, holder'[q] \in Threads
      PROVE  IF holder'[q] = t THEN Has(Tail(s), q) ELSE holder'[q] = holder[q]
  <2>1. holder'[q] = holder[q] /\ ~(Past(s[1]) /\ Key(s[1]) = q)
    <3>1. CASE s[1].adapter = NoOne
      BY <1>0, <3>1, Zenon DEF Released, Past
    <3>2. CASE s[1].adapter # NoOne
      <4>1. holder' = [holder EXCEPT ![Key(s[1])] = NoOne]
        BY <1>0, <3>2 DEF Released, Key
      <4> HIDE DEF s
      <4>2. q # Key(s[1])
        BY <1>0, <1>2, <4>1, Names
      <4> QED BY <1>0, <4>1, <4>2
    <3> QED BY <3>1, <3>2, Zenon
  <2>2. CASE holder[q] = t
    <3>1. Has(s, q)
      BY <1>0, <2>2
    <3> QED BY <1>0, <2>1, <2>2, <3>1, TailHas
  <2> QED BY <2>1, <2>2, Zenon
<1> HIDE DEF s
<1> QED BY <1>0, <1>1, <1>2, ThreadWaits, Zenon
\* Every source the host starts gets a permit first, and keeps it.
LEMMA NextGen == IInv /\ GenInv /\ [Next]_vars => GenInv'
<1> SUFFICES ASSUME IInv, GenInv, [Next]_vars PROVE GenInv'
  OBVIOUS
<1>0. /\ adapters \in [Adapters -> [state : States, gen : 0..MaxGenerations, held : BOOLEAN]]
      /\ \A a \in Adapters : adapters[a].held <=> adapters[a].state # "Stopped"
      /\ \A a \in Adapters : adapters[a].held => adapters[a].gen > 0
      /\ MaxGenerations \in Nat
  BY HostAssumption DEF IInv, TypeOK, CleanInv, GenInv
<1>1. CASE UNCHANGED adapters /\ (task' = task \/ task'.phase \notin {"starting", "stopping"})
  BY <1>1 DEF GenInv, At
<1>2. ASSUME NEW x, adapters' = [adapters EXCEPT ![At] = x], At \in Adapters,
             x.held => x.gen > 0, task'.phase \in {"starting", "stopping"} => x.gen > 0,
             task'.phase \in {"starting", "stopping"} => task'.i = task.i
      PROVE  GenInv'
  <2>1. \A a \in Adapters : adapters'[a] = IF a = At THEN x ELSE adapters[a]
    BY <1>0, <1>2
  <2>2. task'.phase \in {"starting", "stopping"} => At' = At
    BY <1>2 DEF At
  <2> QED BY <1>0, <1>2, <2>1, <2>2, ZenonT(20) DEF GenInv
<1>3. ASSUME task.i \in 1..registered PROVE At \in Adapters /\ adapters[At] \in
        [state : States, gen : 0..MaxGenerations, held : BOOLEAN]
  BY <1>0, <1>3, AtIsRegistered DEF IInv, TypeOK
<1>4. CASE StartAdapter
  <2>1. task.i \in 1..registered
    <3>1. task.phase = "next" /\ task.i <= registered
      BY <1>4, Zenon DEF StartAdapter
    <3>2. task.i \in 1..(registered + 1)
      BY <3>1, Zenon DEF IInv, TaskInv
    <3>3. registered \in 0..Len(Order)
      BY Zenon DEF IInv, TypeOK
    <3> QED BY <3>1, <3>2, <3>3
  <2>2. adapters[At].gen \in Nat
    BY <1>0, <1>3, <2>1
  <2> DEFINE x == [state |-> "StartFailed", gen |-> adapters[At].gen + 1, held |-> TRUE]
  <2>3. adapters' = [adapters EXCEPT ![At] = x] /\ task'.i = task.i
    BY <1>4 DEF StartAdapter, Goto
  <2>4. x.gen > 0
    BY <2>2
  <2> HIDE DEF x
  <2> QED BY <1>2, <1>3, <2>1, <2>3, <2>4, Zenon
<1>5. CASE StartSucceeds
  <2>1. task.i \in 1..registered
    BY <1>5 DEF StartSucceeds, IInv, TaskInv
  <2> DEFINE x == [adapters[At] EXCEPT !.state = "Running"]
  <2>2. adapters' = [adapters EXCEPT ![At] = x] /\ task'.phase = "next"
    BY <1>3, <1>5, <2>1 DEF StartSucceeds, Goto
  <2>3. x.held = adapters[At].held /\ x.gen = adapters[At].gen
    BY <1>3, <2>1
  <2> HIDE DEF x
  <2> QED BY <1>0, <1>2, <1>3, <2>1, <2>2, <2>3, Zenon
<1>6. CASE StopAdapter
  <2>1. task.i \in 1..registered
    BY <1>6 DEF StopAdapter, IInv, TypeOK, TaskInv
  <2> DEFINE x == [adapters[At] EXCEPT !.state = "StopFailed"]
  <2>2. adapters' = [adapters EXCEPT ![At] = x] /\ task'.i = task.i
    BY <1>3, <1>6, <2>1 DEF StopAdapter, Goto
  <2>3. x.held = adapters[At].held /\ x.gen = adapters[At].gen
    BY <1>3, <2>1
  <2>4. adapters[At].gen > 0
    BY <1>0, <1>3, <1>6, <2>1 DEF StopAdapter
  <2> HIDE DEF x
  <2> QED BY <1>2, <1>3, <2>1, <2>2, <2>3, <2>4, Zenon
<1>7. CASE StopSucceeds
  <2>1. task.i \in 1..registered
    BY <1>7 DEF StopSucceeds, IInv, TaskInv
  <2> DEFINE x == [adapters[At] EXCEPT !.state = "Stopped", !.held = FALSE]
  <2>2. adapters' = [adapters EXCEPT ![At] = x] /\ task'.phase = "sources"
    BY <1>3, <1>7, <2>1, ZenonT(20) DEF StopSucceeds, Goto
  <2>3. x.held = FALSE
    BY <1>3, <2>1
  <2> HIDE DEF x
  <2> QED BY <1>2, <1>3, <2>1, <2>2, <2>3, Zenon
<1>8. CASE \/ (\E a \in Callers : SourceCalls(a)) \/ CallbackCalls \/ HostCalls
           \/ \E t \in Threads : EnterPermit(t) \/ RefuseReentry(t) \/ LockBridge(t)
                                 \/ Return(t)
           \/ \E t \in Threads, a \in Adapters : Reenter(t, a)
           \/ Register \/ UNCHANGED vars
  <2>1. UNCHANGED <<adapters, task>>
    BY <1>8, Zenon DEF SourceCalls, CallbackCalls, HostCalls, Call, EnterPermit, RefuseReentry,
                LockBridge, Return, Reenter, Register, vars
  <2> QED BY <1>1, <2>1
<1>9. CASE \/ Start \/ StartFails \/ Started \/ \E op \in {"stop", "drop"} : Stop(op)
           \/ Revoke \/ ClearSubscriptions \/ SkipAdapter \/ StopFails \/ Stopped \/ Dropped
  <2>1. UNCHANGED adapters /\ task'.phase \notin {"starting", "stopping"}
    <3>1. CASE Start
      BY <3>1 DEF Start, Goto
    <3>2. CASE StartFails
      BY <3>2 DEF StartFails, Goto
    <3>3. CASE Started
      BY <3>3 DEF Started, Idle
    <3>4. CASE \E op \in {"stop", "drop"} : Stop(op)
      BY <3>4 DEF Stop, Goto
    <3>5. CASE Revoke
      BY <3>5 DEF Revoke, Goto
    <3>6. CASE ClearSubscriptions
      BY <3>6 DEF ClearSubscriptions, Goto
    <3>7. CASE SkipAdapter
      BY <3>7 DEF SkipAdapter, Goto
    <3>8. CASE StopFails
      BY <3>8 DEF StopFails, Goto
    <3>9. CASE Stopped
      BY <3>9 DEF Stopped, Idle
    <3>10. CASE Dropped
      BY <3>10 DEF Dropped, Idle
    <3> QED BY <1>9, <3>1, <3>2, <3>3, <3>4, <3>5, <3>6, <3>7, <3>8, <3>9, <3>10, Zenon
  <2> QED BY <1>1, <2>1
<1> QED BY <1>4, <1>5, <1>6, <1>7, <1>8, <1>9 DEF Next

\* Everything but the calls leaves the locks and the stacks alone.
LEMMA NextWaits == IInv /\ GenInv /\ WaitInv /\ [Next]_vars => WaitInv'
<1> SUFFICES ASSUME IInv, GenInv, WaitInv, [Next]_vars PROVE WaitInv'
  OBVIOUS
<1>1. CASE UNCHANGED calls
  BY <1>1 DEF calls, WaitInv
<1>2. CASE (\E a \in Callers : SourceCalls(a)) \/ CallbackCalls \/ HostCalls
  BY <1>2, CallWaits
<1>3. ASSUME NEW t \in Threads,
             EnterPermit(t) \/ RefuseReentry(t) \/ LockBridge(t) \/ Return(t)
      PROVE  WaitInv'
  BY <1>3, EnterWaits, LockWaits, ReturnWaits
<1>4. ASSUME NEW t \in Threads, NEW a \in Adapters, Reenter(t, a) PROVE WaitInv'
  BY <1>4, ReenterWaits
<1>5. CASE \/ Register \/ Start \/ StartAdapter \/ StartSucceeds \/ StartFails \/ Started
           \/ \E op \in {"stop", "drop"} : Stop(op)
           \/ Revoke \/ ClearSubscriptions \/ SkipAdapter \/ StopAdapter \/ StopSucceeds
           \/ StopFails \/ Stopped \/ Dropped
  <2>1. UNCHANGED calls
    BY <1>5 DEF Register, Start, StartAdapter, StartSucceeds, StartFails, Started, Stop,
                Revoke, ClearSubscriptions, SkipAdapter, StopAdapter, StopSucceeds,
                StopFails, Stopped, Dropped
  <2> QED BY <1>1, <2>1
<1>6. CASE UNCHANGED vars
  BY <1>1, <1>6 DEF vars, calls
<1> QED BY <1>2, <1>3, <1>4, <1>5, <1>6 DEF Next

\* Whoever owns the Bridge waits for nobody: a port of it calls a handle nobody else uses.
LEMMA OwnerWaitsForNobody ==
  ASSUME IInv, WaitInv, Reentrant \cap Callers = {}, owner \in Threads
  PROVE  WaitsFor(owner) = NoOne
<1>1. PICK t \in Threads : t = owner
  OBVIOUS
<1>2. Shaped(stacks[t], t, t)
  BY <1>1 DEF WaitInv
<1>3. CASE \E f \in Frames : stacks[t] = <<f>> /\ f.at \in {"inside", "done"}
  BY <1>1, <1>3 DEF WaitsFor, Busy, Top
<1>4. CASE \E f, g \in Frames :
             /\ stacks[t] = <<f, g>>
             /\ f.adapter \in Reentrant /\ f.gen > 0 /\ f.at \in {"permit", "bridge"}
             /\ g.adapter \in Callers \cup {NoOne}
  <2>1. PICK f, g \in Frames :
             /\ stacks[t] = <<f, g>>
             /\ f.adapter \in Reentrant /\ f.gen > 0 /\ f.at \in {"permit", "bridge"}
             /\ g.adapter \in Callers \cup {NoOne}
    BY <1>4
  <2>2. Busy(t) /\ Top(t) = f
    BY <2>1 DEF Busy, Top
  <2>3. CASE f.at = "bridge"
    BY <1>1, <2>2, <2>3 DEF WaitsFor
  <2>4. CASE f.at = "permit"
    <3>1. Key(f) \in Permits
      BY <2>1, HostAssumption DEF Key, Permits, Frames
    <3>2. holder[Key(f)] \in Threads \cup {NoOne}
      BY <3>1 DEF IInv, TypeOK
    <3>3. ASSUME holder[Key(f)] \in Threads PROVE FALSE
      <4>1. PICK u \in Threads : u = holder[Key(f)]
        BY <3>3
      <4>2. PICK i \in 1..Len(stacks[u]) :
              Past(stacks[u][i]) /\ Key(stacks[u][i]) = Key(f)
        BY <3>1, <4>1 DEF WaitInv, Has
      <4>3. /\ stacks[u][i].adapter = f.adapter /\ stacks[u][i].at # "permit"
            /\ f.adapter \notin Callers \cup {NoOne}
        BY <2>1, <4>2, HostAssumption, Zenon DEF Past, Key
      <4>4. Shaped(stacks[u], u, t)
        BY <1>1 DEF WaitInv
      <4>5. u = t
        <5>1. CASE stacks[u] = <<>>
          BY <4>2, <5>1, ShortStacks, Zenon
        <5>2. CASE \E x \in Frames : stacks[u] = <<x>> /\ x.adapter \in Callers \cup {NoOne}
          <6>1. PICK x \in Frames : stacks[u] = <<x>> /\ x.adapter \in Callers \cup {NoOne}
            BY <5>2
          <6>2. stacks[u][i] = x
            BY <4>2, <6>1
          <6> QED BY <4>3, <6>1, <6>2
        <5> QED BY <4>4, <5>1, <5>2, ZenonT(20) DEF Shaped
      <4>6. i = 1 \/ i = 2
        BY <2>1, <4>2, <4>5
      <4> QED BY <2>1, <2>4, <4>3, <4>5, <4>6
    <3>4. WaitsFor(t) = holder[Key(f)]
      BY <2>2, <2>4 DEF WaitsFor, Key
    <3> QED BY <1>1, <3>2, <3>3, <3>4
  <2> QED BY <2>1, <2>3, <2>4
<1> QED BY <1>2, <1>3, <1>4 DEF Shaped

\* A generation other than zero is one that was started.
LEMMA PositiveGeneration ==
  ASSUME NEW n \in 0..MaxGenerations, n # 0
  PROVE  n > 0
BY HostAssumption

\* Whoever holds a permit waits at most for the owner of the Bridge.
LEMMA HolderWaitsForOwner ==
  ASSUME IInv, WaitInv, Reentrant \cap Callers = {}, NEW p \in Permits,
         holder[p] \in Threads
  PROVE  WaitsFor(holder[p]) \in {NoOne, owner}
<1>1. PICK t \in Threads : t = holder[p]
  OBVIOUS
<1>2. PICK i \in 1..Len(stacks[t]) : Past(stacks[t][i])
  BY <1>1 DEF WaitInv, Has
<1>3. CASE owner = t
  BY <1>1, <1>3, OwnerWaitsForNobody
<1>4. CASE owner # t
  <2>1. Shaped(stacks[t], t, owner)
    BY DEF WaitInv
  <2>2. PICK f \in Frames : stacks[t] = <<f>> /\ f.at \notin {"inside", "done"}
    <3>1. stacks[t] # <<>>
      BY <1>2
    <3>2. CASE \E f, g \in Frames : stacks[t] = <<f, g>> /\ owner = t
      BY <1>4, <3>2, Zenon
    <3> QED BY <1>4, <2>1, <3>1, <3>2 DEF Shaped
  <2>3. f.at = "bridge"
    <3>1. i = 1 /\ stacks[t][i] = f
      BY <1>2, <2>2
    <3>2. f.at # "permit"
      BY <1>2, <3>1, Zenon DEF Past
    <3> QED BY <2>2, <3>2 DEF Frames
  <2> QED BY <1>1, <1>4, <2>2, <2>3 DEF WaitsFor, Busy, Top
<1> QED BY <1>3, <1>4

\* A thread in a call waits for the owner of the Bridge or the holder of a permit.
LEMMA CallerWaits ==
  ASSUME IInv, WaitInv, NEW t \in Threads, Busy(t)
  PROVE  WaitsFor(t) \in {NoOne, owner} \/ \E p \in Permits : WaitsFor(t) = holder[p]
<1>1. stacks[t] # <<>> /\ Shaped(stacks[t], t, owner)
  BY DEF Busy, WaitInv
<1>2. PICK f \in Frames :
        /\ Top(t) = f
        /\ f.adapter \in Callers \cup Reentrant \cup {NoOne}
        /\ IF f.adapter = NoOne THEN f.at # "permit" ELSE f.gen > 0
  <2>1. NoOne \notin Reentrant
    BY HostAssumption
  <2>2. CASE \E f \in Frames : /\ stacks[t] = <<f>> /\ f.adapter \in Callers \cup {NoOne}
                               /\ IF f.adapter = NoOne THEN f.at # "permit" ELSE f.gen > 0
    BY <2>2 DEF Top
  <2>3. CASE \E f, g \in Frames : stacks[t] = <<f, g>> /\ f.adapter \in Reentrant /\ f.gen > 0
    BY <2>1, <2>3 DEF Top
  <2> QED BY <1>1, <2>2, <2>3, Zenon DEF Shaped
<1>3. CASE f.at = "permit"
  <2>1. Key(f) \in Permits
    BY <1>2, <1>3, HostAssumption DEF Key, Permits, Frames
  <2>2. WaitsFor(t) = holder[Key(f)]
    BY <1>2, <1>3 DEF WaitsFor, Key
  <2> QED BY <2>1, <2>2
<1>4. CASE f.at # "permit"
  BY <1>2, <1>4 DEF WaitsFor
<1> QED BY <1>3, <1>4

\* What any thread waits for: these, or in stop for a source's thread that is in a call.
LEMMA ThreadWaitsFor ==
  ASSUME IInv, GenInv, WaitInv, NEW t \in Threads
  PROVE  \/ WaitsFor(t) \in {NoOne, owner}
         \/ \E p \in Permits : WaitsFor(t) = holder[p]
         \/ \E u \in Threads : WaitsFor(t) = u /\ Busy(u)
<1>1. CASE Busy(t)
  BY <1>1, CallerWaits
<1>2. CASE ~Busy(t) /\ t # Host
  BY <1>2 DEF WaitsFor
<1>3. CASE ~Busy(t) /\ t = Host
  <2>1. ASSUME task.i \in 1..registered, adapters[At].gen > 0
        PROVE  Permit(At) \in Permits
    <3>1. At \in Adapters /\ adapters[At].gen \in 0..MaxGenerations
      BY <2>1, AtIsRegistered DEF IInv, TypeOK
    <3> QED BY <2>1, <3>1, HostAssumption DEF Permit, Permits
  <2>2. CASE task.phase = "revoke" /\ task.i <= registered
    <3>1. task.i \in 1..registered
      BY <2>2 DEF IInv, TypeOK, TaskInv
    <3>2. adapters[At].gen \in 0..MaxGenerations
      BY <3>1, AtIsRegistered DEF IInv, TypeOK
    <3>3. WaitsFor(t) = IF adapters[At].gen = 0 THEN NoOne ELSE holder[Permit(At)]
      BY <1>3, <2>2, <3>1 DEF WaitsFor, IInv, TypeOK
    <3>4. CASE adapters[At].gen = 0
      BY <3>3, <3>4
    <3>5. CASE adapters[At].gen # 0
      <4>1. adapters[At].gen > 0
        BY <3>2, <3>5, PositiveGeneration, Zenon
      <4> QED BY <2>1, <3>1, <3>3, <3>5, <4>1
    <3> QED BY <3>4, <3>5, Zenon
  <2>3. CASE task.phase = "revoke" /\ ~(task.i <= registered)
    <3>1. task.i > registered
      BY <2>3 DEF IInv, TypeOK
    <3> QED BY <1>3, <2>3, <3>1 DEF WaitsFor
  <2>4. CASE task.phase = "starting"
    <3>1. task.i \in 1..registered /\ adapters[At].gen > 0
      BY <2>4 DEF IInv, TaskInv, GenInv
    <3>2. WaitsFor(t) = holder[Permit(At)]
      BY <1>3, <2>4 DEF WaitsFor
    <3> QED BY <2>1, <3>1, <3>2
  <2>5. CASE task.phase = "stopping" /\ At \in Callers
    <3>1. WaitsFor(t) = IF Busy(At) THEN At ELSE NoOne
      BY <1>3, <2>5 DEF WaitsFor
    <3> QED BY <2>5, <3>1 DEF Threads
  <2>6. CASE /\ task.phase \notin {"revoke", "starting"}
             /\ ~(task.phase = "stopping" /\ At \in Callers)
    BY <1>3, <2>6 DEF WaitsFor
  <2> QED BY <2>2, <2>3, <2>4, <2>5, <2>6
<1> QED BY <1>1, <1>2, <1>3

\* No threads of the host and its sources wait for one another, for any number of them:
\* a wait leads from stop to a call, from a call to the holder of a permit, from there to
\* the owner of the Bridge, and the owner waits for nobody (IngressPermit::enter,
\* SharedBridge::access, revoke).  It is a hypothesis that a port which calls its handle
\* belongs to an adapter without a thread of its own that uses this handle.
THEOREM NoWaitCycleEver == Reentrant \cap Callers = {} => (Spec => []NoWaitCycle)
<1> SUFFICES ASSUME Reentrant \cap Callers = {} PROVE Spec => []NoWaitCycle
  OBVIOUS
<1>1. Init => GenInv /\ WaitInv
  <2> SUFFICES ASSUME Init PROVE GenInv /\ WaitInv
    OBVIOUS
  <2>1. GenInv
    BY DEF Init, GenInv, Idle
  <2>2. \A t \in Threads : Shaped(stacks[t], t, owner)
    BY Names DEF Init, Shaped
  <2>3. \A p \in Permits : holder[p] \notin Threads
    BY Names DEF Init
  <2> QED BY <2>1, <2>2, <2>3 DEF WaitInv
<1>2. IInv /\ GenInv /\ WaitInv /\ [Next]_vars => GenInv' /\ WaitInv'
  BY NextGen, NextWaits
<1>3. IInv /\ GenInv /\ WaitInv => NoWaitCycle
  <2> SUFFICES ASSUME IInv, GenInv, WaitInv, NEW ring \in SUBSET Threads,
                      \A t \in ring : WaitsFor(t) \in ring, NEW t0 \in ring
               PROVE  FALSE
    BY DEF NoWaitCycle
  <2>1. NoOne \notin ring
    BY Names
  <2>2. owner \notin ring
    <3> SUFFICES ASSUME owner \in ring PROVE FALSE
      OBVIOUS
    <3>1. WaitsFor(owner) = NoOne
      BY OwnerWaitsForNobody
    <3> QED BY <2>1, <3>1
  <2>3. ASSUME NEW p \in Permits PROVE holder[p] \notin ring
    <3> SUFFICES ASSUME holder[p] \in ring PROVE FALSE
      OBVIOUS
    <3>1. WaitsFor(holder[p]) \in {NoOne, owner}
      BY HolderWaitsForOwner
    <3> QED BY <2>1, <2>2, <3>1
  <2>4. ASSUME NEW u \in ring, Busy(u) PROVE FALSE
    <3>1. \/ WaitsFor(u) \in {NoOne, owner}
          \/ \E p \in Permits : WaitsFor(u) = holder[p]
      BY <2>4, CallerWaits
    <3> QED BY <2>1, <2>2, <2>3, <3>1
  <2>5. \/ WaitsFor(t0) \in {NoOne, owner}
        \/ \E p \in Permits : WaitsFor(t0) = holder[p]
        \/ \E u \in Threads : WaitsFor(t0) = u /\ Busy(u)
    BY ThreadWaitsFor
  <2> QED BY <2>1, <2>2, <2>3, <2>4, <2>5
<1> QED BY <1>1, <1>2, <1>3, HostInvariant, PTL DEF Spec
=============================================================================
