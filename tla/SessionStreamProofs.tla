------------------------- MODULE SessionStreamProofs -------------------------
(***************************************************************************)
(* What the reducer's operators return, and with it proofs about           *)
(* SessionStream, for every capacity, every bound and every set of         *)
(* payloads that satisfies PayloadAssumption.                              *)
(***************************************************************************)
EXTENDS SessionStream, Integers, TLAPS

\* Facts about numbers and finite sets that some lemmas take as a hypothesis; they are
\* proved once the library can be used without burdening
\* every other step: NumbersHold, at the end of BridgeProofs.
WellOrdered == \A T \in SUBSET Nat : T # {} => \E x \in T : \A y \in T : x <= y
Counts(S) ==
  Cardinality(S) \in Nat /\ \A x : x \notin S => Cardinality(S \cup {x}) = Cardinality(S) + 1
Counting == Cardinality({}) = 0 /\ \A n \in Nat : \A S \in SUBSET (1..n) : Counts(S)
Numbers == WellOrdered /\ Counting

\* What SubSeq returns.
LEMMA SubSeqEntries ==
  ASSUME NEW S, NEW s, NEW m \in Int, NEW n \in Int, \A i \in m..n : s[i] \in S
  PROVE  /\ SubSeq(s, m, n) \in Seq(S)
         /\ Len(SubSeq(s, m, n)) = IF m <= n THEN n - m + 1 ELSE 0
         /\ \A i \in 1..(n - m + 1) : SubSeq(s, m, n)[i] = s[m + i - 1]
OBVIOUS

\* Sequences with the same entries are the same.
LEMMA SameEntries ==
  ASSUME NEW S, NEW s \in Seq(S), NEW t \in Seq(S),
         Len(s) = Len(t), \A i \in 1..Len(s) : s[i] = t[i]
  PROVE  s = t
OBVIOUS

-----------------------------------------------------------------------------
\* ObserveState keeps a snapshot's type and never moves its revision or its update
\* time back (session.rs:135-146).
LEMMA ObserveStateLemma ==
  ASSUME NEW s \in SessionSnapshot, NEW st \in AgentStates, NEW at \in Nat,
         s.revision < MaxCounter
  PROVE  /\ ObserveState(s, st, at) \in SessionSnapshot
         /\ ObserveState(s, st, at).revision = s.revision + 1
         /\ ObserveState(s, st, at).updated >= s.updated
<1> DEFINE u == IF at > s.updated THEN at ELSE s.updated
<1>1. s.revision \in 1..MaxCounter /\ s.updated \in Nat
  BY DEF SessionSnapshot
<1>2. u \in Nat /\ u >= s.updated
  BY <1>1
<1>3. s.revision + 1 \in 1..MaxCounter
  BY <1>1, AggregateAssumption DEF AggregateAssumption
<1> HIDE DEF u
<1>4. ObserveState(s, st, at) = [s EXCEPT !.state = st, !.revision = s.revision + 1, !.updated = u]
  BY DEF ObserveState, u
<1> QED
  BY <1>2, <1>3, <1>4 DEF SessionSnapshot

\* The same of ObserveConnection (session.rs:148-159).
LEMMA ObserveConnectionLemma ==
  ASSUME NEW s \in SessionSnapshot, NEW c \in ConnectionStates, NEW at \in Nat,
         s.revision < MaxCounter
  PROVE  /\ ObserveConnection(s, c, at) \in SessionSnapshot
         /\ ObserveConnection(s, c, at).revision = s.revision + 1
         /\ ObserveConnection(s, c, at).updated >= s.updated
<1> DEFINE u == IF at > s.updated THEN at ELSE s.updated
<1>1. s.revision \in 1..MaxCounter /\ s.updated \in Nat
  BY DEF SessionSnapshot
<1>2. u \in Nat /\ u >= s.updated
  BY <1>1
<1>3. s.revision + 1 \in 1..MaxCounter
  BY <1>1, AggregateAssumption DEF AggregateAssumption
<1> HIDE DEF u
<1>4. ObserveConnection(s, c, at)
        = [s EXCEPT !.connection = c, !.revision = s.revision + 1, !.updated = u]
  BY DEF ObserveConnection, u
<1> QED
  BY <1>2, <1>3, <1>4 DEF SessionSnapshot

\* What one accepted payload changes: the projection keeps its type, the window and
\* the cursor are left to RecordEvent, requests stay unique by identifier, and no
\* revision or update time moves back (aggregate.rs:353-430).
LEMMA ReduceLemma ==
  ASSUME NEW a \in Aggregates, NEW p \in Payloads, NEW at \in Nat,
         Acceptable(a, p),
         \A r1, r2 \in a.pending : r1.id = r2.id => r1 = r2
  PROVE  /\ Reduce(a, p, at) \in Aggregates
         /\ Reduce(a, p, at).last = a.last
         /\ Reduce(a, p, at).recent = a.recent
         /\ \A r1, r2 \in Reduce(a, p, at).pending : r1.id = r2.id => r1 = r2
         /\ Reduce(a, p, at).session.updated >= a.session.updated
         /\ \/ Reduce(a, p, at).session = a.session
            \/ Reduce(a, p, at).session.revision > a.session.revision
         /\ Reduce(a, p, at).plan >= a.plan
         /\ Reduce(a, p, at).progress >= a.progress
<1>1. /\ a.session \in SessionSnapshot /\ a.plan \in Nat /\ a.progress \in Nat
      /\ a.session.updated \in Nat /\ a.session.revision \in Nat
  BY AggregateAssumption DEF Aggregates, SessionSnapshot, AggregateAssumption
<1>2. CASE p.kind = "StateChanged"
  <2>1. p.state \in AgentStates /\ a.session.revision < MaxCounter
    BY <1>2, PayloadAssumption DEF PayloadAssumption, Acceptable, HasNextRevision
  <2> DEFINE s == ObserveState(a.session, p.state, at)
  <2>2. /\ s \in SessionSnapshot /\ s.revision = a.session.revision + 1
        /\ s.updated >= a.session.updated
    BY <1>1, <2>1, ObserveStateLemma
  <2>3. Reduce(a, p, at) = [a EXCEPT !.session = s]
    BY <1>2 DEF Reduce
  <2> HIDE DEF s
  <2> QED BY <1>1, <2>2, <2>3 DEF Aggregates
<1>3. CASE p.kind = "ConnectionChanged"
  <2>1. p.connection \in ConnectionStates /\ a.session.revision < MaxCounter
    BY <1>3, PayloadAssumption DEF PayloadAssumption, Acceptable, HasNextRevision
  <2> DEFINE s == ObserveConnection(a.session, p.connection, at)
  <2>2. /\ s \in SessionSnapshot /\ s.revision = a.session.revision + 1
        /\ s.updated >= a.session.updated
    BY <1>1, <2>1, ObserveConnectionLemma
  <2>3. Reduce(a, p, at) = [a EXCEPT !.session = s]
    BY <1>3 DEF Reduce
  <2> HIDE DEF s
  <2> QED BY <1>1, <2>2, <2>3 DEF Aggregates
<1>4. CASE p.kind = "SessionEnded"
  <2>1. /\ p.outcome \in Outcomes /\ p.outcome \in AgentStates
        /\ a.session.revision < MaxCounter
    BY <1>4, PayloadAssumption
    DEF PayloadAssumption, Acceptable, HasNextRevision, Outcomes, AgentStates
  <2> DEFINE s == ObserveState(a.session, p.outcome, at)
  <2>2. /\ s \in SessionSnapshot /\ s.revision = a.session.revision + 1
        /\ s.updated >= a.session.updated
    BY <1>1, <2>1, ObserveStateLemma
  <2>3. Reduce(a, p, at) = [a EXCEPT !.session = s, !.outcome = p.outcome,
                                     !.tools = {}, !.pending = {}]
    BY <1>4 DEF Reduce
  <2> HIDE DEF s
  <2>4. Reduce(a, p, at) \in Aggregates
    BY <2>1, <2>2, <2>3 DEF Aggregates
  <2>5. /\ Reduce(a, p, at).last = a.last /\ Reduce(a, p, at).recent = a.recent
        /\ Reduce(a, p, at).pending = {} /\ Reduce(a, p, at).session = s
        /\ Reduce(a, p, at).plan = a.plan /\ Reduce(a, p, at).progress = a.progress
    BY <2>3 DEF Aggregates
  <2> QED BY <1>1, <2>2, <2>4, <2>5
<1>5. CASE p.kind \in {"ToolStarted", "ToolFinished"}
  <2>1. p.call \in Calls
    BY <1>5 DEF Calls, PayloadsOf
  <2>2. PICK t \in SUBSET Calls : Reduce(a, p, at) = [a EXCEPT !.tools = t]
    <3>1. a.tools \cup {p.call} \in SUBSET Calls /\ a.tools \ {p.call} \in SUBSET Calls
      BY <2>1 DEF Aggregates
    <3>2. \/ Reduce(a, p, at) = [a EXCEPT !.tools = a.tools \cup {p.call}]
          \/ Reduce(a, p, at) = [a EXCEPT !.tools = a.tools \ {p.call}]
      BY <1>5 DEF Reduce
    <3> QED BY <3>1, <3>2
  <2> QED BY <1>1, <2>2 DEF Aggregates
<1>6. CASE p.kind \in {"PlanUpdated", "ProgressUpdated"}
  <2>1. p.revision \in Nat
    BY <1>6, PayloadAssumption DEF PayloadAssumption
  <2>2. CASE p.kind = "PlanUpdated"
    <3>1. Reduce(a, p, at) = [a EXCEPT !.plan = p.revision] /\ p.revision > a.plan
      BY <2>2 DEF Reduce, Acceptable
    <3> QED BY <1>1, <2>1, <3>1 DEF Aggregates
  <2>3. CASE p.kind = "ProgressUpdated"
    <3>1. /\ Reduce(a, p, at) = [a EXCEPT !.progress = p.revision]
          /\ p.revision > a.progress
      BY <2>3 DEF Reduce, Acceptable
    <3> QED BY <1>1, <2>1, <3>1 DEF Aggregates
  <2> QED BY <1>6, <2>2, <2>3
<1>7. CASE p.kind = "InteractionRequested"
  <2>1. p.request \in Requests
    BY <1>7 DEF Requests, PayloadsOf
  <2>2. Reduce(a, p, at) = [a EXCEPT !.pending = a.pending \cup {p.request}]
    BY <1>7 DEF Reduce
  <2>3. \A r \in a.pending : r.id # p.request.id
    BY <1>7 DEF Acceptable, IsFresh, PendingIds
  <2>4. a.pending \cup {p.request} \in SUBSET Requests
    BY <2>1 DEF Aggregates
  <2>5. \A r1, r2 \in a.pending \cup {p.request} : r1.id = r2.id => r1 = r2
    BY <2>3
  <2> QED BY <1>1, <2>2, <2>4, <2>5, SMTT(30) DEF Aggregates
<1>8. CASE p.kind \in {"InteractionResponded", "InteractionClosed"}
  <2>1. PICK q \in SUBSET a.pending : Reduce(a, p, at) = [a EXCEPT !.pending = q]
    <3>1. \/ Reduce(a, p, at) = [a EXCEPT !.pending = Without(a.pending, p.interaction)]
          \/ Reduce(a, p, at)
               = [a EXCEPT !.pending = Without(a.pending, p.response.request)]
      BY <1>8 DEF Reduce
    <3>2. /\ Without(a.pending, p.interaction) \in SUBSET a.pending
          /\ Without(a.pending, p.response.request) \in SUBSET a.pending
      BY DEF Without
    <3> QED BY <3>1, <3>2
  <2>2. q \in SUBSET Requests
    BY <2>1 DEF Aggregates
  <2>3. Reduce(a, p, at) \in Aggregates
    BY <2>1, <2>2, SMTT(30) DEF Aggregates
  <2>4. /\ Reduce(a, p, at).last = a.last /\ Reduce(a, p, at).recent = a.recent
        /\ Reduce(a, p, at).pending = q /\ Reduce(a, p, at).session = a.session
        /\ Reduce(a, p, at).plan = a.plan /\ Reduce(a, p, at).progress = a.progress
    BY <2>1 DEF Aggregates
  <2>5. \A r1, r2 \in q : r1.id = r2.id => r1 = r2
    BY <2>1
  <2> QED BY <1>1, <2>3, <2>4, <2>5
<1>9. CASE p.kind \in {"Message", "CommandIssued"}
  BY <1>1, <1>9 DEF Reduce
<1> QED
  BY <1>2, <1>3, <1>4, <1>5, <1>6, <1>7, <1>8, <1>9, PayloadAssumption
  DEF Acceptable, PayloadAssumption, PayloadKinds

-----------------------------------------------------------------------------
\* Appending to a stream of which the window is the newest part: the new window is
\* again the newest part, one longer or full (aggregate.rs:654-667).
LEMMA WindowLemma ==
  ASSUME NEW l \in Seq(Events), NEW w \in Seq(Events), NEW e \in Events,
         Len(w) = IF RetainAll \/ Len(l) <= RecentEventCapacity
                  THEN Len(l) ELSE RecentEventCapacity,
         \A i \in 1..Len(w) : w[i] = l[Len(l) - Len(w) + i]
  PROVE  /\ Window(w, e) \in Seq(Events)
         /\ Len(Window(w, e)) = IF RetainAll \/ Len(l) + 1 <= RecentEventCapacity
                                THEN Len(l) + 1 ELSE RecentEventCapacity
         /\ \A i \in 1..Len(Window(w, e)) :
              Window(w, e)[i] = Append(l, e)[Len(l) + 1 - Len(Window(w, e)) + i]
<1> DEFINE g == Append(w, e)
           L == Append(l, e)
<1>1. RecentEventCapacity \in Nat /\ RetainAll \in BOOLEAN
  BY AggregateAssumption DEF AggregateAssumption
<1>2. /\ g \in Seq(Events) /\ Len(g) = Len(w) + 1 /\ g[Len(w) + 1] = e
      /\ \A i \in 1..Len(w) : g[i] = w[i]
  OBVIOUS
<1>3. /\ L \in Seq(Events) /\ Len(L) = Len(l) + 1 /\ L[Len(l) + 1] = e
      /\ \A i \in 1..Len(l) : L[i] = l[i]
  OBVIOUS
<1>4. Len(w) \in Nat /\ Len(l) \in Nat /\ Len(w) <= Len(l)
  BY <1>1
<1> HIDE DEF g, L
<1>5. \A i \in 1..Len(g) : g[i] = L[Len(l) - Len(w) + i]
  <2> SUFFICES ASSUME NEW i \in 1..Len(g) PROVE g[i] = L[Len(l) - Len(w) + i]
    OBVIOUS
  <2>1. CASE i = Len(w) + 1
    BY <1>2, <1>3, <1>4, <2>1
  <2>2. CASE i \in 1..Len(w)
    <3>1. Len(l) - Len(w) + i \in 1..Len(l)
      BY <1>4, <2>2
    <3> QED BY <1>2, <1>3, <2>2, <3>1, SMTT(30)
  <2> QED BY <1>2, <1>4, <2>1, <2>2
<1>6. CASE ~KeepsWindow
  <2>1. Window(w, e) = w /\ Len(w) = 0 /\ ~RetainAll /\ RecentEventCapacity = 0
    BY <1>1, <1>4, <1>6 DEF Window, KeepsWindow
  <2> QED BY <1>4, <2>1
<1>7. CASE KeepsWindow /\ (RetainAll \/ Len(g) <= RecentEventCapacity)
  <2>1. Window(w, e) = g
    <3>1. RetainAll \/ Len(Append(w, e)) - RecentEventCapacity <= 0
      BY <1>1, <1>2, <1>4, <1>7 DEF g
    <3> QED BY <1>7, <3>1 DEF Window, g
  <2>2. Len(g) = Len(l) + 1
    BY <1>1, <1>2, <1>4, <1>7
  <2>3. RetainAll \/ Len(l) + 1 <= RecentEventCapacity
    BY <1>7, <2>2
  <2>4. \A i \in 1..Len(g) : g[i] = L[Len(l) + 1 - Len(g) + i]
    BY <1>2, <1>4, <1>5, <2>2
  <2> QED BY <1>2, <2>1, <2>2, <2>3, <2>4 DEF L
<1>8. CASE KeepsWindow /\ ~RetainAll /\ Len(g) > RecentEventCapacity
  <2>1. Len(w) = RecentEventCapacity
    BY <1>1, <1>2, <1>4, <1>8
  <2>2. Len(g) - RecentEventCapacity = 1
    BY <1>1, <1>2, <2>1
  <2>3. Window(w, e) = SubSeq(g, 2, Len(g))
    BY <1>1, <1>2, <1>8, <2>2 DEF Window, g
  <2>4. /\ SubSeq(g, 2, Len(g)) \in Seq(Events)
        /\ Len(SubSeq(g, 2, Len(g))) = RecentEventCapacity
        /\ \A i \in 1..RecentEventCapacity : SubSeq(g, 2, Len(g))[i] = g[i + 1]
    BY <1>1, <1>2, <1>4, <2>1, SubSeqEntries
  <2>5. Len(l) + 1 > RecentEventCapacity
    BY <1>1, <1>4, <2>1
  <2>6. \A i \in 1..RecentEventCapacity : g[i + 1] = L[Len(l) + 1 - RecentEventCapacity + i]
    <3> SUFFICES ASSUME NEW i \in 1..RecentEventCapacity
                 PROVE  g[i + 1] = L[Len(l) + 1 - RecentEventCapacity + i]
      OBVIOUS
    <3>1. i + 1 \in 1..Len(g)
      BY <1>1, <1>2, <2>1
    <3>2. Len(l) - Len(w) + (i + 1) = Len(l) + 1 - RecentEventCapacity + i
      <4>1. \A m, n \in Nat, j \in Int : m - n + (j + 1) = m + 1 - n + j
        OBVIOUS
      <4>2. i \in Int
        BY <1>1
      <4> QED BY <1>1, <1>4, <2>1, <4>1, <4>2
    <3> QED BY <1>5, <3>1, <3>2
  <2>7. ~(RetainAll \/ Len(l) + 1 <= RecentEventCapacity)
    BY <1>1, <1>4, <1>8, <2>5
  <2>8. Len(Window(w, e)) = RecentEventCapacity
    BY <2>3, <2>4
  <2>9. \A i \in 1..RecentEventCapacity :
          Window(w, e)[i] = L[Len(l) + 1 - RecentEventCapacity + i]
    BY <2>3, <2>4, <2>6
  <2> QED BY <2>3, <2>4, <2>7, <2>8, <2>9 DEF L
<1>9. \/ ~KeepsWindow
      \/ KeepsWindow /\ (RetainAll \/ Len(g) <= RecentEventCapacity)
      \/ KeepsWindow /\ ~RetainAll /\ Len(g) > RecentEventCapacity
  <2>1. \A m, n \in Nat : m <= n \/ m > n
    OBVIOUS
  <2> QED BY <1>1, <1>2, <1>4, <2>1 DEF KeepsWindow
<1> QED BY <1>6, <1>7, <1>8, <1>9, Zenon

-----------------------------------------------------------------------------
\* The payloads that change the session snapshot.
SnapshotKinds == {"StateChanged", "ConnectionChanged", "SessionEnded"}

\* What an observation changes of a snapshot (session.rs:135-159).
LEMMA SnapshotEffect ==
  ASSUME NEW s \in SessionSnapshot, NEW at \in Nat, NEW x
  PROVE  /\ ObserveState(s, x, at).id = s.id
         /\ ObserveState(s, x, at).provider = s.provider
         /\ ObserveState(s, x, at).state = x
         /\ ObserveState(s, x, at).connection = s.connection
         /\ ObserveState(s, x, at).revision = s.revision + 1
         /\ ObserveConnection(s, x, at).id = s.id
         /\ ObserveConnection(s, x, at).provider = s.provider
         /\ ObserveConnection(s, x, at).state = s.state
         /\ ObserveConnection(s, x, at).connection = x
         /\ ObserveConnection(s, x, at).revision = s.revision + 1
<1> DEFINE u == IF at > s.updated THEN at ELSE s.updated
<1>1. ObserveState(s, x, at)
        = [s EXCEPT !.state = x, !.revision = s.revision + 1, !.updated = u]
  BY DEF ObserveState
<1>2. ObserveConnection(s, x, at)
        = [s EXCEPT !.connection = x, !.revision = s.revision + 1, !.updated = u]
  BY DEF ObserveConnection
<1> HIDE DEF u
<1> QED BY <1>1, <1>2 DEF SessionSnapshot

\* Every field of the projection after an accepted payload (aggregate.rs:353-430).
LEMMA ReduceEffect ==
  ASSUME NEW a \in Aggregates, NEW p \in Payloads, NEW at \in Nat, Acceptable(a, p)
  PROVE  LET q == Reduce(a, p, at)
         IN  /\ q.session.id = a.session.id
             /\ q.session.provider = a.session.provider
             /\ p.kind \notin SnapshotKinds => q.session = a.session
             /\ q.session.state = IF p.kind = "StateChanged" THEN p.state
                                  ELSE IF p.kind = "SessionEnded" THEN p.outcome
                                  ELSE a.session.state
             /\ q.session.connection = IF p.kind = "ConnectionChanged" THEN p.connection
                                       ELSE a.session.connection
             /\ q.session.revision = IF p.kind \in SnapshotKinds THEN a.session.revision + 1
                                     ELSE a.session.revision
             /\ q.tools = IF p.kind = "ToolStarted" THEN a.tools \cup {p.call}
                          ELSE IF p.kind = "ToolFinished" THEN a.tools \ {p.call}
                          ELSE IF p.kind = "SessionEnded" THEN {} ELSE a.tools
             /\ q.pending = IF p.kind = "InteractionRequested" THEN a.pending \cup {p.request}
                            ELSE IF p.kind = "InteractionResponded"
                                 THEN Without(a.pending, p.response.request)
                            ELSE IF p.kind = "InteractionClosed"
                                 THEN Without(a.pending, p.interaction)
                            ELSE IF p.kind = "SessionEnded" THEN {} ELSE a.pending
             /\ q.outcome = IF p.kind = "SessionEnded" THEN p.outcome ELSE a.outcome
             /\ q.plan = IF p.kind = "PlanUpdated" THEN p.revision ELSE a.plan
             /\ q.progress = IF p.kind = "ProgressUpdated" THEN p.revision ELSE a.progress
<1> DEFINE q == Reduce(a, p, at)
<1> USE DEF SnapshotKinds
<1>1. a.session \in SessionSnapshot
  BY DEF Aggregates
<1>2. CASE p.kind = "StateChanged"
  <2> DEFINE s == ObserveState(a.session, p.state, at)
  <2>1. q = [a EXCEPT !.session = s]
    BY <1>2 DEF Reduce
  <2>2. /\ s.id = a.session.id /\ s.provider = a.session.provider /\ s.state = p.state
        /\ s.connection = a.session.connection /\ s.revision = a.session.revision + 1
    BY <1>1, SnapshotEffect
  <2> HIDE DEF s, q
  <2> QED BY <1>2, <2>1, <2>2 DEF Aggregates, q
<1>3. CASE p.kind = "ConnectionChanged"
  <2> DEFINE s == ObserveConnection(a.session, p.connection, at)
  <2>1. q = [a EXCEPT !.session = s]
    BY <1>3 DEF Reduce
  <2>2. /\ s.id = a.session.id /\ s.provider = a.session.provider
        /\ s.state = a.session.state
        /\ s.connection = p.connection /\ s.revision = a.session.revision + 1
    BY <1>1, SnapshotEffect
  <2> HIDE DEF s, q
  <2> QED BY <1>3, <2>1, <2>2 DEF Aggregates, q
<1>4. CASE p.kind = "SessionEnded"
  <2> DEFINE s == ObserveState(a.session, p.outcome, at)
  <2>1. q = [a EXCEPT !.session = s, !.outcome = p.outcome, !.tools = {}, !.pending = {}]
    BY <1>4 DEF Reduce
  <2>2. /\ s.id = a.session.id /\ s.provider = a.session.provider /\ s.state = p.outcome
        /\ s.connection = a.session.connection /\ s.revision = a.session.revision + 1
    BY <1>1, SnapshotEffect
  <2> HIDE DEF s, q
  <2> QED BY <1>4, <2>1, <2>2 DEF Aggregates, q
<1>5. CASE p.kind \in {"ToolStarted", "ToolFinished"}
  BY <1>5 DEF Reduce, Aggregates
<1>6. CASE p.kind \in {"PlanUpdated", "ProgressUpdated"}
  BY <1>6 DEF Reduce, Aggregates
<1>7. CASE p.kind = "InteractionRequested"
  BY <1>7 DEF Reduce, Aggregates
<1>8. CASE p.kind \in {"InteractionResponded", "InteractionClosed"}
  BY <1>8 DEF Reduce, Aggregates
<1>9. CASE p.kind \in {"Message", "CommandIssued"}
  BY <1>9 DEF Reduce
<1> QED
  BY <1>2, <1>3, <1>4, <1>5, <1>6, <1>7, <1>8, <1>9, PayloadAssumption
  DEF Acceptable, PayloadAssumption, PayloadKinds

\* What the filter of retained_event_page_after does with the i-th retained event, when
\* g holds its results so far.
FilterStep(g, r, after, i) ==
  IF i = 0 THEN <<>>
  ELSE IF r[i].sequence > after THEN Append(g[i - 1], r[i])
  ELSE g[i - 1]

\* Filtering a window that is numbered without a hole cuts off its older part
\* (aggregate.rs:550-558).
LEMMA NewerLemma ==
  ASSUME Numbers, NEW r \in Seq(Events), NEW base \in Nat, NEW after \in base..(base + Len(r)),
         \A i \in 1..Len(r) : r[i].sequence = base + i
  PROVE  Newer(r, after) = SubSeq(r, after - base + 1, Len(r))
<1> DEFINE n == Len(r)
           k == after - base
           Steps(g) == g = [i \in 0..n |-> FilterStep(g, r, after, i)]
           f == CHOOSE g : Steps(g)
           h == [i \in 0..n |-> SubSeq(r, k + 1, i)]
<1>1. n \in Nat /\ k \in Nat /\ k <= n
  OBVIOUS
<1>2. SubSeq(r, k + 1, 0) = <<>>
  BY <1>1, SubSeqEntries
<1>3. ASSUME NEW i \in 1..n PROVE h[i] = FilterStep(h, r, after, i)
  <2>1. h[i] = SubSeq(r, k + 1, i) /\ h[i - 1] = SubSeq(r, k + 1, i - 1)
    <3>1. i \in 0..n /\ i - 1 \in 0..n
      BY <1>1
    <3> HIDE DEF n, k
    <3> QED BY <3>1
  <2> HIDE DEF h
  <2>2. CASE i <= k
    <3>1. SubSeq(r, k + 1, i) = <<>> /\ SubSeq(r, k + 1, i - 1) = <<>>
      BY <1>1, <2>2, SubSeqEntries
    <3>2. ~(r[i].sequence > after)
      BY <1>1, <2>2
    <3> QED BY <2>1, <3>1, <3>2 DEF FilterStep
  <2>3. CASE i > k
    <3>1. r[i].sequence > after
      BY <1>1, <2>3
    <3>2. SubSeq(r, k + 1, i) = Append(SubSeq(r, k + 1, i - 1), r[i])
      <4> DEFINE u == SubSeq(r, k + 1, i)
                 v == SubSeq(r, k + 1, i - 1)
      <4>1. u \in Seq(Events) /\ Len(u) = i - k /\ \A j \in 1..(i - k) : u[j] = r[k + j]
        BY <1>1, <2>3, SubSeqEntries
      <4>2. /\ v \in Seq(Events) /\ Len(v) = i - 1 - k
            /\ \A j \in 1..(i - 1 - k) : v[j] = r[k + j]
        BY <1>1, <2>3, SubSeqEntries
      <4> HIDE DEF u, v
      <4>3. /\ Append(v, r[i]) \in Seq(Events) /\ Len(Append(v, r[i])) = i - k
            /\ \A j \in 1..(i - 1 - k) : Append(v, r[i])[j] = v[j]
            /\ Append(v, r[i])[i - k] = r[i]
        BY <1>1, <2>3, <4>2
      <4>4. \A j \in 1..Len(u) : u[j] = Append(v, r[i])[j]
        <5>1. \A j \in 1..Len(u) : j \in 1..(i - 1 - k) \/ j = i - k
          BY <1>1, <2>3, <4>1
        <5>2. u[i - k] = r[i]
          BY <1>1, <2>3, <4>1
        <5> HIDE DEF k, n
        <5> QED BY <4>1, <4>2, <4>3, <5>1, <5>2
      <4> QED BY <4>1, <4>3, <4>4, SameEntries DEF u, v
    <3>3. i # 0
      BY <1>1
    <3> HIDE DEF k, n
    <3> QED BY <2>1, <3>1, <3>2, <3>3, Zenon DEF FilterStep
  <2> QED BY <1>1, <2>2, <2>3
<1>4. Steps(h)
  <2>1. h[0] = FilterStep(h, r, after, 0)
    BY <1>1, <1>2 DEF FilterStep
  <2> HIDE DEF h
  <2>2. \A i \in 0..n : h[i] = FilterStep(h, r, after, i)
    BY <1>1, <1>3, <2>1
  <2> QED BY <2>2 DEF h
<1>5. Steps(f)
  BY <1>4
<1>6. \A i \in 0..n : f[i] = h[i]
  <2> HIDE DEF f, h
  <2> DEFINE T == {i \in 0..n : f[i] # h[i]}
  <2>1. ASSUME T # {} PROVE FALSE
    <3> HIDE DEF T
    <3>0. T \subseteq Nat
      BY <1>1 DEF T
    <3>1. PICK m \in T : \A y \in T : m <= y
      BY <2>1, <3>0, Zenon DEF Numbers, WellOrdered
    <3> USE DEF T
    <3>2. f[m] = FilterStep(f, r, after, m) /\ h[m] = FilterStep(h, r, after, m)
      BY <1>4, <1>5, <3>1
    <3>3. m # 0
      BY <3>1, <3>2 DEF FilterStep
    <3>4. f[m - 1] = h[m - 1]
      <4>1. m - 1 \in 0..n /\ ~(m <= m - 1)
        BY <1>1, <3>1, <3>3
      <4>2. m - 1 \notin T
        BY <3>1, <4>1, Zenon
      <4> QED BY <4>1, <4>2
    <3> QED BY <3>1, <3>2, <3>4 DEF FilterStep
  <2> QED BY <2>1
<1>7. Newer(r, after) = f[n]
  BY DEF Newer, FilterStep
<1>8. h[n] = SubSeq(r, k + 1, n) /\ n \in 0..n
  <2>1. n \in 0..n
    BY <1>1
  <2> HIDE DEF n, k
  <2> QED BY <2>1
<1> HIDE DEF f, h
<1> QED BY <1>6, <1>7, <1>8

-----------------------------------------------------------------------------
\* The window ends with the last event and is numbered without a hole; without a capacity
\* it stays empty (record_event).
Contiguous(a) ==
  /\ ~KeepsWindow => a.recent = <<>>
  /\ Len(a.recent) <= LastSequence(a)
  /\ \A i \in 1..Len(a.recent) :
       a.recent[i].sequence = LastSequence(a) - Len(a.recent) + i

\* The fields of an event (AgentEvent::new).
LEMMA EventFields ==
  ASSUME NEW e \in Events
  PROVE  /\ e.session \in Sessions /\ e.payload \in Payloads /\ e.at \in Nat
         /\ e.sequence \in 1..MaxCounter /\ e.sequence \in Nat
         /\ WellFormedEvent(e)
<1>1. /\ e.session \in Sessions /\ e.payload \in Payloads /\ e.at \in Times
      /\ e.sequence \in 1..MaxCounter /\ WellFormedEvent(e)
  BY DEF Events, EventRecords
<1>2. MaxCounter \in Nat /\ Times \subseteq Nat
  BY AggregateAssumption, PayloadAssumption DEF AggregateAssumption, PayloadAssumption
<1>3. \A x \in 1..MaxCounter : x \in Nat
  BY <1>2
<1> QED BY <1>1, <1>2, <1>3, Zenon

\* A kept window ends with the new event and continues the old window
\* (aggregate.rs:654-667).
LEMMA WindowEffect ==
  ASSUME NEW w \in Seq(Events), NEW e \in Events
  PROVE  /\ Window(w, e) \in Seq(Events)
         /\ \/ Window(w, e) = w /\ ~KeepsWindow
            \/ /\ KeepsWindow
               /\ Len(Window(w, e)) \in 1..(Len(w) + 1)
               /\ \A i \in 1..Len(Window(w, e)) :
                    Window(w, e)[i] = Append(w, e)[Len(w) + 1 - Len(Window(w, e)) + i]
<1> DEFINE g == Append(w, e)
           excess == Len(g) - RecentEventCapacity
<1>1. RecentEventCapacity \in Nat /\ RetainAll \in BOOLEAN
  BY AggregateAssumption DEF AggregateAssumption
<1>2. g \in Seq(Events) /\ Len(g) = Len(w) + 1 /\ Len(w) \in Nat
  OBVIOUS
<1> HIDE DEF g
<1>3. CASE ~KeepsWindow
  BY <1>3 DEF Window
<1>4. CASE KeepsWindow /\ (RetainAll \/ excess <= 0)
  <2>1. Window(w, e) = g
    BY <1>4 DEF Window, g
  <2>2. \A i \in 1..Len(g) : Len(w) + 1 - Len(g) + i = i
    BY <1>2
  <2> QED BY <1>4, <1>2, <2>1, <2>2 DEF g
<1>5. CASE KeepsWindow /\ ~RetainAll /\ ~(excess <= 0)
  <2>1. Window(w, e) = SubSeq(g, excess + 1, Len(g))
    BY <1>5 DEF Window, g
  <2>2. RecentEventCapacity > 0 /\ excess \in 1..Len(w)
    BY <1>1, <1>2, <1>5 DEF KeepsWindow
  <2> DEFINE u == SubSeq(g, excess + 1, Len(g))
  <2>3. /\ u \in Seq(Events) /\ Len(u) = RecentEventCapacity
        /\ \A i \in 1..RecentEventCapacity : u[i] = g[excess + i]
    BY <1>1, <1>2, <2>2, SubSeqEntries
  <2> HIDE DEF u
  <2>4. \A i \in 1..RecentEventCapacity : Len(w) + 1 - RecentEventCapacity + i = excess + i
    BY <1>1, <1>2
  <2>5. RecentEventCapacity \in 1..(Len(w) + 1)
    BY <1>1, <1>2, <2>2
  <2> HIDE DEF excess
  <2> QED BY <1>5, <2>1, <2>3, <2>4, <2>5 DEF u, g
<1> QED BY <1>3, <1>4, <1>5

\* What apply leaves after an accepted event: an aggregate whose window is still the
\* newest part of the stream, whose cursor is the event, and whose projection is the
\* reduced one (aggregate.rs:348-430, 654-667).
LEMMA ApplyLemma ==
  ASSUME NEW a \in Aggregates, NEW e \in Events, Applies(a, e), Contiguous(a),
         \A r1, r2 \in a.pending : r1.id = r2.id => r1 = r2
  PROVE  LET n == Apply(a, e)
             q == Reduce(a, e.payload, e.at)
         IN  /\ n \in Aggregates
             /\ n.last = e
             /\ n.recent = Window(a.recent, e)
             /\ n.session = q.session /\ n.pending = q.pending /\ n.tools = q.tools
             /\ n.outcome = q.outcome /\ n.plan = q.plan /\ n.progress = q.progress
             /\ \A r1, r2 \in n.pending : r1.id = r2.id => r1 = r2
             /\ Contiguous(n)
             /\ \A i \in 1..Len(n.recent) :
                  n.recent[i] = e \/ \E j \in 1..Len(a.recent) : n.recent[i] = a.recent[j]
<1> DEFINE n == Apply(a, e)
           q == Reduce(a, e.payload, e.at)
           w == Window(a.recent, e)
           L == Len(a.recent)
<1>1. /\ a.recent \in Seq(Events) /\ a.last \in Events /\ L \in Nat
      /\ e.payload \in Payloads /\ e.at \in Nat
      /\ e.sequence \in Nat /\ a.last.sequence \in Nat
  BY EventFields DEF Aggregates
<1>2. /\ q \in Aggregates /\ q.last = a.last /\ q.recent = a.recent
      /\ \A r1, r2 \in q.pending : r1.id = r2.id => r1 = r2
  BY <1>1, ReduceLemma DEF Applies
<1>3. n = [q EXCEPT !.last = e, !.recent = w]
  BY <1>2 DEF Apply, RecordEvent
<1>4. /\ w \in Seq(Events)
      /\ \/ w = a.recent /\ ~KeepsWindow
         \/ /\ KeepsWindow
            /\ Len(w) \in 1..(L + 1)
            /\ \A i \in 1..Len(w) : w[i] = Append(a.recent, e)[L + 1 - Len(w) + i]
  BY <1>1, WindowEffect
<1> HIDE DEF q, w, n
<1>5. /\ n \in Aggregates /\ n.last = e /\ n.recent = w
      /\ n.session = q.session /\ n.pending = q.pending /\ n.tools = q.tools
      /\ n.outcome = q.outcome /\ n.plan = q.plan /\ n.progress = q.progress
  BY <1>2, <1>3, <1>4 DEF Aggregates
<1>6. e.sequence = a.last.sequence + 1
  BY DEF Applies, Continues
<1>7. CASE w = a.recent /\ ~KeepsWindow
  <2>1. w = <<>>
    BY <1>7 DEF Contiguous
  <2>2. Contiguous(n)
    BY <1>1, <1>5, <2>1 DEF Contiguous, LastSequence
  <2> QED BY <1>2, <1>5, <2>1, <2>2 DEF n, q, w
<1>8. CASE /\ KeepsWindow
           /\ Len(w) \in 1..(L + 1)
           /\ \A i \in 1..Len(w) : w[i] = Append(a.recent, e)[L + 1 - Len(w) + i]
  <2> DEFINE N == LastSequence(a)
             M == Len(w)
  <2>1. M \in Nat /\ N \in Nat /\ e.sequence = N + 1 /\ L <= N
    BY <1>1, <1>6, <1>8 DEF LastSequence, Contiguous
  <2>2. \A i \in 1..L : a.recent[i].sequence = N - L + i
    BY DEF Contiguous
  <2> HIDE DEF N, M, L
  <2>3. ASSUME NEW i \in 1..M
        PROVE  /\ w[i].sequence = N + 1 - M + i
               /\ w[i] = e \/ \E j \in 1..L : w[i] = a.recent[j]
    <3> DEFINE j == L + 1 - M + i
    <3>1. j \in 1..(L + 1) /\ w[i] = Append(a.recent, e)[j]
      <4>1. j \in 1..(L + 1)
        <5>1. M \in 1..(L + 1)
          BY <1>8, Zenon DEF M
        <5>2. L \in Nat
          BY <1>1 DEF L
        <5> QED BY <2>1, <5>1, <5>2
      <4>2. i \in 1..Len(w)
        BY DEF M
      <4>3. w[i] = Append(a.recent, e)[L + 1 - Len(w) + i]
        BY <1>8, <4>2, Zenon
      <4> QED BY <4>1, <4>3 DEF M
    <3>2. CASE j = L + 1
      <4>1. w[i] = e
        BY <1>1, <3>1, <3>2 DEF L
      <4>2. N + 1 - M + i = N + 1
        BY <1>1, <2>1, <3>2
      <4> QED BY <2>1, <4>1, <4>2
    <3>3. CASE j \in 1..L
      <4> HIDE DEF j
      <4>1. w[i] = a.recent[j]
        BY <1>1, <3>1, <3>3 DEF L
      <4>2. a.recent[j].sequence = N - L + j
        BY <2>2, <3>3
      <4>3. N - L + j = N + 1 - M + i
        BY <1>1, <2>1 DEF j
      <4> QED BY <3>3, <4>1, <4>2, <4>3
    <3>4. j = L + 1 \/ j \in 1..L
      <4> HIDE DEF j
      <4> QED BY <1>1, <3>1
    <3> QED BY <3>2, <3>3, <3>4
  <2>4. M <= N + 1
    BY <1>1, <1>8, <2>1 DEF M
  <2>5. Contiguous(n)
    BY <1>5, <1>8, <2>1, <2>3, <2>4 DEF Contiguous, LastSequence, M
  <2> QED BY <1>2, <1>5, <2>3, <2>5 DEF n, q, w, M, L
<1> QED BY <1>4, <1>7, <1>8

\* A page that is offered starts right after the cursor, is numbered without a hole, and
\* holds min(max, what is left of the stream) retained events
\* (retained_event_page_after).
LEMMA PageCut ==
  ASSUME Numbers, NEW a \in Aggregates, Contiguous(a), NEW after \in Nat,
         NEW max \in Nat, HasPage(a, after)
  PROVE  LET page == PageAfter(a, after, max)
             left == LastSequence(a) - after
         IN  /\ page \in Seq(Events)
             /\ left \in Nat
             /\ Len(page) = IF left < max THEN left ELSE max
             /\ \A i \in 1..Len(page) :
                  /\ page[i].sequence = after + i
                  /\ after < LastSequence(a) =>
                       /\ Len(a.recent) - left + i \in 1..Len(a.recent)
                       /\ page[i] = a.recent[Len(a.recent) - left + i]
<1> DEFINE page == PageAfter(a, after, max)
           N == LastSequence(a)
           left == N - after
           L == Len(a.recent)
           base == N - L
<1>1. a.recent \in Seq(Events) /\ L \in Nat /\ N \in Nat /\ L <= N
  BY AggregateAssumption
  DEF Aggregates, Events, EventRecords, AggregateAssumption, LastSequence, Contiguous
<1>2. left \in Nat
  BY <1>1 DEF HasPage
<1>3. CASE after = N
  <2>1. page = <<>> /\ left = 0
    BY <1>1, <1>3 DEF PageAfter
  <2> QED BY <1>3, <2>1
<1>4. CASE after # N
  <2>1. a.recent # <<>> /\ Head(a.recent).sequence <= after + 1 /\ after < N
    BY <1>1, <1>4 DEF HasPage
  <2>2. \A i \in 1..L : a.recent[i].sequence = base + i
    BY DEF Contiguous
  <2>3. page = SubSeq(Newer(a.recent, after), 1,
                      IF Len(Newer(a.recent, after)) < max
                      THEN Len(Newer(a.recent, after)) ELSE max)
    BY <1>4 DEF PageAfter
  <2>4. L > 0 /\ Head(a.recent) = a.recent[1]
    BY <1>1, <2>1
  <2> HIDE DEF N, L, page
  <2>5. base + 1 <= after + 1
    BY <1>1, <2>1, <2>2, <2>4
  <2>6. base \in Nat /\ after \in base..(base + L)
    BY <1>1, <2>1, <2>4, <2>5
  <2> DEFINE k == after - base
             u == SubSeq(a.recent, k + 1, L)
  <2>7. Newer(a.recent, after) = u
    BY <1>1, <2>2, <2>6, NewerLemma DEF L
  <2>8. k \in Nat /\ k < L /\ L - k = left /\ k = L - left
    BY <1>1, <2>1, <2>6
  <2>9. /\ u \in Seq(Events) /\ Len(u) = left
        /\ \A i \in 1..left : u[i] = a.recent[k + i]
    <3> HIDE DEF k, left
    <3>1. \A i \in (k + 1)..L : a.recent[i] \in Events
      BY <1>1, <2>8 DEF L
    <3> QED BY <1>1, <1>2, <2>8, <3>1, SubSeqEntries
  <2> DEFINE m == IF left < max THEN left ELSE max
  <2> HIDE DEF u, k, left, base
  <2>10. m \in 0..left
    BY <1>2
  <2>11. page = SubSeq(u, 1, m)
    BY <2>3, <2>7, <2>9
  <2> HIDE DEF m
  <2>12. page \in Seq(Events) /\ Len(page) = m /\ \A i \in 1..m : page[i] = u[i]
    BY <1>2, <2>9, <2>10, <2>11, SubSeqEntries
  <2>13. ASSUME NEW i \in 1..m
         PROVE  /\ page[i].sequence = after + i
                /\ L - left + i \in 1..L
                /\ page[i] = a.recent[L - left + i]
    <3>1. i \in 1..left /\ k + i \in 1..L
      BY <1>1, <1>2, <2>8, <2>10
    <3>2. page[i] = a.recent[k + i]
      BY <2>9, <2>12, <3>1
    <3>3. a.recent[k + i].sequence = base + (k + i)
      BY <2>2, <3>1
    <3>4. base + (k + i) = after + i
      BY <2>6, <2>8, <3>1 DEF k
    <3> QED BY <2>8, <3>1, <3>2, <3>3, <3>4
  <2> QED BY <1>2, <2>12, <2>13 DEF m, page, left, L, N
<1> QED BY <1>3, <1>4

-----------------------------------------------------------------------------
(* The stream *)


\* The inductive invariant.
StreamInv ==
  /\ StreamTypeOK
  /\ LogIsContiguous
  /\ WindowIsNewestSuffix
  /\ PendingIdsAreUnique

-----------------------------------------------------------------------------
\* The initial aggregate holds the invariant (from_initial_event_with_config).
LEMMA InitStream == StreamInit => StreamInv
<1> SUFFICES ASSUME StreamInit PROVE StreamInv
  OBVIOUS
<1>1. PICK e \in Events : /\ CanStart(e)
                         /\ agg = FromInitialEvent(e)
                         /\ log = <<e>>
  BY DEF StreamInit
<1>2. e.payload \in Payloads /\ e.payload.snapshot \in SessionSnapshot
  BY <1>1, PayloadAssumption
  DEF Events, EventRecords, CanStart, PayloadAssumption, Snapshots, PayloadsOf
<1> DEFINE w == IF KeepsWindow THEN <<e>> ELSE <<>>
<1>3. agg = [session |-> e.payload.snapshot, plan |-> 0, progress |-> 0, tools |-> {},
             pending |-> {}, outcome |-> None, last |-> e, recent |-> w]
  BY <1>1 DEF FromInitialEvent
<1>4. w \in Seq(Events) /\ log \in Seq(Events)
  BY <1>1
<1>5. StreamTypeOK
  BY <1>2, <1>3, <1>4 DEF StreamTypeOK, Aggregates
<1>6. LogIsContiguous
  BY <1>1, <1>3 DEF LogIsContiguous, CanStart, FirstSequence
<1>7. WindowIsNewestSuffix
  <2>1. RecentEventCapacity \in Nat /\ RetainAll \in BOOLEAN
    BY AggregateAssumption DEF AggregateAssumption
  <2>2. agg.recent = w /\ Len(log) = 1 /\ log[1] = e
    BY <1>1, <1>3
  <2> HIDE DEF w
  <2>3. CASE KeepsWindow
    <3>1. Len(w) = 1 /\ w[1] = e
      BY <2>3 DEF w
    <3> QED BY <2>1, <2>2, <2>3, <3>1 DEF WindowIsNewestSuffix, WindowLength, KeepsWindow
  <2>4. CASE ~KeepsWindow
    <3>1. Len(w) = 0
      BY <2>4 DEF w
    <3> QED BY <2>1, <2>2, <2>4, <3>1 DEF WindowIsNewestSuffix, WindowLength, KeepsWindow
  <2> QED BY <2>3, <2>4
<1>8. PendingIdsAreUnique
  BY <1>3 DEF PendingIdsAreUnique
<1> QED BY <1>5, <1>6, <1>7, <1>8 DEF StreamInv

\* One accepted event preserves the invariant (apply, record_event).
LEMMA ApplyStream ==
  ASSUME StreamInv, NEW e \in Events, Applies(agg, e), agg' = Apply(agg, e),
         log' = Append(log, e)
  PROVE  /\ StreamInv'
         /\ agg'.session.updated >= agg.session.updated
         /\ \/ agg'.session = agg.session
            \/ agg'.session.revision > agg.session.revision
         /\ agg'.plan >= agg.plan
         /\ agg'.progress >= agg.progress
<1> DEFINE r == Reduce(agg, e.payload, e.at)
           w == Window(agg.recent, e)
<1>1. /\ agg \in Aggregates /\ log \in Seq(Events) /\ agg.recent \in Seq(Events)
      /\ e.payload \in Payloads /\ e.at \in Nat
  BY PayloadAssumption, Zenon DEF StreamInv, StreamTypeOK, Aggregates, Events, EventRecords, PayloadAssumption
<1>2. /\ r \in Aggregates /\ r.last = agg.last /\ r.recent = agg.recent
      /\ \A r1, r2 \in r.pending : r1.id = r2.id => r1 = r2
      /\ r.session.updated >= agg.session.updated
      /\ \/ r.session = agg.session
         \/ r.session.revision > agg.session.revision
      /\ r.plan >= agg.plan
      /\ r.progress >= agg.progress
  BY <1>1, ReduceLemma DEF StreamInv, PendingIdsAreUnique, Applies
<1>3. /\ w \in Seq(Events)
      /\ Len(w) = IF RetainAll \/ Len(log) + 1 <= RecentEventCapacity
                  THEN Len(log) + 1 ELSE RecentEventCapacity
      /\ \A i \in 1..Len(w) : w[i] = Append(log, e)[Len(log) + 1 - Len(w) + i]
  BY <1>1, WindowLemma, Zenon DEF StreamInv, WindowIsNewestSuffix, WindowLength
<1>4. agg' = [r EXCEPT !.last = e, !.recent = w]
  BY <1>2 DEF Apply, RecordEvent
<1> HIDE DEF r, w
<1>5. agg' \in Aggregates /\ agg'.last = e /\ agg'.recent = w
  BY <1>2, <1>3, <1>4, Zenon DEF Aggregates
<1>6. /\ agg'.pending = r.pending /\ agg'.session = r.session
      /\ agg'.plan = r.plan /\ agg'.progress = r.progress
  BY <1>2, <1>4 DEF Aggregates
<1>7. /\ log' \in Seq(Events) /\ Len(log') = Len(log) + 1 /\ log'[Len(log) + 1] = e
      /\ \A i \in 1..Len(log) : log'[i] = log[i]
  BY <1>1
<1>8. StreamTypeOK'
  BY <1>5, <1>7 DEF StreamTypeOK
<1>9. LogIsContiguous'
  <2>1. agg.last = log[Len(log)] /\ Len(log) > 0 /\ Len(log) \in Nat
        /\ \A i \in 1..Len(log) : log[i].sequence = i
    BY <1>1 DEF StreamInv, LogIsContiguous
  <2>2. e.sequence = Len(log) + 1
    BY <2>1 DEF Applies, Continues
  <2> QED BY <1>5, <1>7, <2>1, <2>2 DEF LogIsContiguous
<1>10. WindowIsNewestSuffix'
  <2>1. Len(log) \in Nat /\ Len(w) \in Nat
    BY <1>1, <1>3
  <2>2. Len(agg'.recent) = WindowLength'
    BY <1>3, <1>5, <1>7 DEF WindowLength
  <2>3. ASSUME NEW i \in 1..Len(w)
        PROVE  w[i] = log'[Len(log') - Len(w) + i]
    BY <1>3, <1>7, <2>1, SMTT(30)
  <2> QED BY <1>5, <2>2, <2>3, Zenon DEF WindowIsNewestSuffix
<1>11. PendingIdsAreUnique'
  BY <1>2, <1>6 DEF PendingIdsAreUnique
<1> QED BY <1>2, <1>6, <1>8, <1>9, <1>10, <1>11 DEF StreamInv

\* Every step, a refused event included, preserves the invariant (apply).
LEMMA NextStream == StreamInv /\ [StreamNext]_streamVars => StreamInv'
<1> SUFFICES ASSUME StreamInv, [StreamNext]_streamVars PROVE StreamInv'
  OBVIOUS
<1>1. CASE ApplyEvent
  BY <1>1, ApplyStream DEF ApplyEvent
<1>2. CASE RefuseEvent
  BY <1>2, Zenon DEF RefuseEvent, streamVars, StreamInv, StreamTypeOK, LogIsContiguous, WindowIsNewestSuffix,
              WindowLength, PendingIdsAreUnique
<1>3. CASE UNCHANGED streamVars
  BY <1>3, Zenon DEF streamVars, StreamInv, StreamTypeOK, LogIsContiguous, WindowIsNewestSuffix,
              WindowLength, PendingIdsAreUnique
<1> QED BY <1>1, <1>2, <1>3 DEF StreamNext

\* The inductive invariant holds in every state of the stream.
THEOREM StreamInvariant == StreamSpec => []StreamInv
<1> QED BY InitStream, NextStream, PTL DEF StreamSpec

\* Whatever a Provider offers, the aggregate's fields keep their types.
THEOREM StreamTypeCorrect == StreamSpec => []StreamTypeOK
<1>1. StreamInv => StreamTypeOK
  BY DEF StreamInv
<1> QED BY StreamInvariant, <1>1, PTL

\* The applied events are numbered 1, 2, 3, ... for every source (validate_cursor).
THEOREM StreamIsContiguous == StreamSpec => []LogIsContiguous
<1>1. StreamInv => LogIsContiguous
  BY DEF StreamInv
<1> QED BY StreamInvariant, <1>1, PTL

\* For every capacity, zero and retain-all included, the window is exactly the newest
\* part of the applied stream (record_event).
THEOREM WindowIsSuffix == StreamSpec => []WindowIsNewestSuffix
<1>1. StreamInv => WindowIsNewestSuffix
  BY DEF StreamInv
<1> QED BY StreamInvariant, <1>1, PTL

\* No two pending requests share an identifier (apply on InteractionRequested).
THEOREM PendingUnique == StreamSpec => []PendingIdsAreUnique
<1>1. StreamInv => PendingIdsAreUnique
  BY DEF StreamInv
<1> QED BY StreamInvariant, <1>1, PTL

\* No snapshot, plan or progress ever moves back (observe_state,
\* observe_connection_state, validate_snapshot_revision).
THEOREM SnapshotsNeverRegress == StreamSpec => SnapshotsAdvance
<1> DEFINE A == /\ agg'.session.updated >= agg.session.updated
                /\ agg'.session.revision >= agg.session.revision
                /\ agg'.session # agg.session =>
                     agg'.session.revision > agg.session.revision
                /\ agg'.plan >= agg.plan
                /\ agg'.progress >= agg.progress
<1>1. StreamInv /\ [StreamNext]_streamVars => [A]_streamVars
  <2> SUFFICES ASSUME StreamInv, StreamNext PROVE A \/ UNCHANGED streamVars
    OBVIOUS
  <2>1. CASE ApplyEvent
    <3>1. PICK e \in Events : /\ Applies(agg, e) /\ agg' = Apply(agg, e)
                             /\ log' = Append(log, e)
      BY <2>1 DEF ApplyEvent
    <3>2. /\ agg'.session.updated >= agg.session.updated
          /\ \/ agg'.session = agg.session
             \/ agg'.session.revision > agg.session.revision
          /\ agg'.plan >= agg.plan
          /\ agg'.progress >= agg.progress
          /\ StreamInv'
      BY <3>1, ApplyStream
    <3>3. agg.session.revision \in Int /\ agg'.session.revision \in Int
      BY <3>2, AggregateAssumption
      DEF StreamInv, StreamTypeOK, Aggregates, SessionSnapshot, AggregateAssumption
    <3> QED BY <3>2, <3>3
  <2>2. CASE RefuseEvent
    BY <2>2 DEF RefuseEvent
  <2> QED BY <2>1, <2>2 DEF StreamNext
<1> QED BY <1>1, StreamInvariant, PTL DEF StreamSpec, SnapshotsAdvance

-----------------------------------------------------------------------------
\* The window of a stream in its invariant ends with the last event and has no hole
\* (record_event).
LEMMA StreamWindow ==
  ASSUME StreamInv
  PROVE  /\ agg \in Aggregates /\ log \in Seq(Events) /\ Len(log) \in Nat
         /\ LastSequence(agg) = Len(log)
         /\ agg.recent \in Seq(Events) /\ Len(agg.recent) \in 0..Len(log)
         /\ Contiguous(agg)
<1>1. agg \in Aggregates /\ log \in Seq(Events) /\ agg.recent \in Seq(Events)
  BY DEF StreamInv, StreamTypeOK, Aggregates
<1>2. /\ Len(log) \in Nat /\ Len(log) > 0 /\ Len(agg.recent) \in Nat
      /\ RecentEventCapacity \in Nat /\ RetainAll \in BOOLEAN
  BY <1>1, AggregateAssumption DEF StreamInv, LogIsContiguous, AggregateAssumption
<1>3. LastSequence(agg) = Len(log) /\ \A i \in 1..Len(log) : log[i].sequence = i
  BY <1>2 DEF StreamInv, LogIsContiguous, LastSequence
<1>4. /\ Len(agg.recent) = IF RetainAll \/ Len(log) <= RecentEventCapacity
                           THEN Len(log) ELSE RecentEventCapacity
      /\ \A i \in 1..Len(agg.recent) :
           agg.recent[i] = log[Len(log) - Len(agg.recent) + i]
  BY DEF StreamInv, WindowIsNewestSuffix, WindowLength
<1>5. Len(agg.recent) \in 0..Len(log)
  BY <1>2, <1>4
<1>6. ~KeepsWindow => agg.recent = <<>>
  BY <1>1, <1>2, <1>4 DEF KeepsWindow
<1>7. ASSUME NEW i \in 1..Len(agg.recent)
      PROVE  agg.recent[i].sequence = Len(log) - Len(agg.recent) + i
  <2>1. Len(log) - Len(agg.recent) + i \in 1..Len(log)
    BY <1>2, <1>5
  <2> QED BY <1>3, <1>4, <2>1
<1>8. Contiguous(agg)
  <2>1. Len(agg.recent) <= LastSequence(agg)
    BY <1>2, <1>3, <1>5
  <2>2. \A i \in 1..Len(agg.recent) :
          agg.recent[i].sequence = LastSequence(agg) - Len(agg.recent) + i
    BY <1>3, <1>7, Zenon
  <2> QED BY <1>6, <2>1, <2>2, Zenon DEF Contiguous
<1> QED BY <1>1, <1>2, <1>3, <1>5, <1>8

\* A page is offered exactly when the window reaches back to the cursor
\* (retained_event_page_after).
LEMMA PageIsOffered ==
  ASSUME StreamInv, NEW after \in Nat
  PROVE  HasPage(agg, after) <=>
           after <= Len(log) /\ Len(log) - after <= Len(agg.recent)
<1> DEFINE N == Len(log)
           L == Len(agg.recent)
<1>1. /\ N \in Nat /\ L \in 0..N /\ LastSequence(agg) = N /\ agg.recent \in Seq(Events)
      /\ \A i \in 1..L : agg.recent[i].sequence = N - L + i
  BY StreamWindow, Zenon DEF Contiguous
<1>2. L > 0 <=> agg.recent # <<>>
  BY <1>1
<1>3. L > 0 => Head(agg.recent).sequence = N - L + 1
  <2>1. L > 0 => Head(agg.recent) = agg.recent[1] /\ 1 \in 1..L
    BY <1>1
  <2> QED BY <1>1, <2>1, Zenon
<1>4. HasPage(agg, after) <=>
        after <= N /\ (after = N \/ (agg.recent # <<>> /\ Head(agg.recent).sequence <= after + 1))
  BY <1>1, Zenon DEF HasPage
<1> HIDE DEF N, L
<1>5. CASE L > 0
  <2>1. Head(agg.recent).sequence <= after + 1 <=> N - after <= L
    BY <1>1, <1>3, <1>5
  <2> QED BY <1>1, <1>2, <1>4, <1>5, <2>1 DEF N, L
<1>6. CASE ~(L > 0)
  BY <1>1, <1>2, <1>4, <1>6 DEF N, L
<1> QED BY <1>5, <1>6

\* An offered page is the next part of the applied stream (retained_event_page_after).
LEMMA PageIsNext ==
  ASSUME Numbers, StreamInv, NEW after \in Nat, NEW max \in Nat, HasPage(agg, after)
  PROVE  PageAfter(agg, after, max)
           = SubSeq(log, after + 1, IF after + max < Len(log) THEN after + max ELSE Len(log))
<1> DEFINE N == Len(log)
           L == Len(agg.recent)
           page == PageAfter(agg, after, max)
           through == IF after + max < N THEN after + max ELSE N
           sub == SubSeq(log, after + 1, through)
           left == N - after
           m == IF left < max THEN left ELSE max
<1>1. /\ N \in Nat /\ L \in 0..N /\ LastSequence(agg) = N /\ log \in Seq(Events)
      /\ \A i \in 1..L : agg.recent[i] = log[N - L + i]
  BY StreamWindow DEF StreamInv, WindowIsNewestSuffix
<1>2. after <= N /\ left <= L
  BY PageIsOffered
<1>3. /\ page \in Seq(Events) /\ Len(page) = m
      /\ \A i \in 1..m : after < N => /\ L - left + i \in 1..L
                                      /\ page[i] = agg.recent[L - left + i]
  <2>1. /\ page \in Seq(Events)
        /\ Len(page) = IF LastSequence(agg) - after < max THEN LastSequence(agg) - after
                       ELSE max
        /\ \A i \in 1..Len(page) :
             after < LastSequence(agg) =>
               /\ L - (LastSequence(agg) - after) + i \in 1..L
               /\ page[i] = agg.recent[L - (LastSequence(agg) - after) + i]
    BY StreamWindow, PageCut, ZenonT(20)
  <2> HIDE DEF page, L
  <2> QED BY <1>1, <2>1, Zenon
<1> HIDE DEF N, L, page
<1>4. m \in 0..left /\ through = after + m /\ through \in 0..N /\ left \in Nat
  <2>1. N \in Nat /\ after <= N
    BY <1>1, <1>2, Zenon
  <2> QED BY <2>1
<1> HIDE DEF m, left, through
<1>5. \A i \in (after + 1)..through : log[i] \in Events
  BY <1>1, <1>4 DEF N
<1>6. sub \in Seq(Events) /\ Len(sub) = m /\ \A i \in 1..m : sub[i] = log[after + i]
  <2>1. /\ sub \in Seq(Events)
        /\ Len(sub) = IF after + 1 <= through THEN through - (after + 1) + 1 ELSE 0
        /\ \A i \in 1..(through - (after + 1) + 1) : sub[i] = log[after + 1 + i - 1]
    BY <1>4, <1>5, SubSeqEntries
  <2> HIDE DEF sub
  <2>2. through - (after + 1) + 1 = m /\ m \in Nat
    BY <1>4
  <2>3. \A i \in 1..m : after + 1 + i - 1 = after + i
    BY <2>2
  <2>4. Len(sub) = m
    BY <1>4, <2>1, <2>2
  <2>5. ASSUME NEW i \in 1..m PROVE sub[i] = log[after + i]
    BY <2>1, <2>2, <2>3, Zenon
  <2> QED BY <2>1, <2>4, <2>5
<1>7. ASSUME NEW i \in 1..m PROVE page[i] = sub[i]
  <2>1. after < N
    BY <1>1, <1>2, <1>4 DEF left
  <2>2. page[i] = agg.recent[L - left + i] /\ L - left + i \in 1..L
    BY <1>3, <2>1
  <2>3. N - L + (L - left + i) = after + i
    BY <1>1, <1>2, <1>4 DEF left
  <2> QED BY <1>1, <1>6, <2>2, <2>3
<1> HIDE DEF sub
<1>8. page = sub
  BY <1>3, <1>6, <1>7, SameEntries
<1> QED BY <1>8 DEF page, sub, through, N

\* Where the invariant holds, the pages of every cursor chain to the log
\* (retained_event_page_after).
LEMMA PagesFollow ==
  ASSUME Numbers, StreamInv
  PROVE  PagesContinueTheLog
<1> SUFFICES ASSUME NEW after \in 0..(Len(log) + 1), NEW max \in 1..(Len(log) + 1)
             PROVE  LET through == IF after + max < Len(log) THEN after + max ELSE Len(log)
                    IN  /\ HasPage(agg, after) <=>
                             after <= Len(log) /\ Len(log) - after <= Len(agg.recent)
                        /\ HasPage(agg, after) =>
                             PageAfter(agg, after, max) = SubSeq(log, after + 1, through)
  BY DEF PagesContinueTheLog
<1>1. after \in Nat /\ max \in Nat
  BY StreamWindow
<1> QED BY <1>1, PageIsOffered, PageIsNext

-----------------------------------------------------------------------------
\* The log after one more event.
Grows(e) ==
  /\ log \in Seq(Events) /\ log' \in Seq(Events)
  /\ Len(log) \in Nat /\ Len(log') = Len(log) + 1
  /\ log'[Len(log) + 1] = e
  /\ \A i \in 1..Len(log) : log'[i] = log[i]

\* The kinds of the events logged before do not change.
LEMMA GrowsKinds ==
  ASSUME NEW e \in Events, Grows(e)
  PROVE  /\ \A i \in 1..Len(log) : Kind(i)' = Kind(i)
         /\ \A i \in 1..Len(log') :
              i = Len(log) + 1 => Kind(i)' = e.payload.kind /\ log'[i] = e
         /\ \A i \in 1..Len(log') : i \in 1..Len(log) \/ i = Len(log) + 1
         /\ \A i \in 1..Len(log) : i \in 1..Len(log') /\ i # Len(log) + 1
         /\ Len(log) + 1 \in 1..Len(log')
<1>1. /\ Len(log) \in Nat /\ Len(log') = Len(log) + 1
      /\ log'[Len(log) + 1] = e
      /\ \A i \in 1..Len(log) : log'[i] = log[i]
  BY DEF Grows
<1> QED BY <1>1 DEF Kind

\* The newest event of some kinds is the last of the positions that hold one.
LEMMA NewestIsThere ==
  ASSUME Numbers, NEW kinds, log \in Seq(Events), Newest(kinds) # 0
  PROVE  Newest(kinds) \in 1..Len(log) /\ Kind(Newest(kinds)) \in kinds
<1> DEFINE found == {i \in 1..Len(log) : Kind(i) \in kinds}
           T == {n \in Nat : \E i \in found : n = Len(log) - i}
<1>1. found # {} /\ Newest(kinds) = CHOOSE i \in found : \A j \in found : j <= i
  BY DEF Newest
<1>2. Len(log) \in Nat
  OBVIOUS
<1>3. PICK i \in found : TRUE
  BY <1>1
<1>4. Len(log) - i \in T
  BY <1>2, <1>3
<1>5. T \subseteq Nat /\ T # {}
  BY <1>4, Zenon
<1>6. PICK n \in T : \A m \in T : n <= m
  BY <1>5, Zenon DEF Numbers, WellOrdered
<1>7. PICK k \in found : n = Len(log) - k
  BY <1>6
<1>8. ASSUME NEW j \in found PROVE j <= k
  <2>1. Len(log) - j \in T
    BY <1>2
  <2>2. n <= Len(log) - j
    BY <1>6, <2>1, Zenon
  <2> QED BY <1>2, <1>7, <2>2
<1> HIDE DEF found
<1>9. Newest(kinds) \in found
  BY <1>1, <1>7, <1>8
<1> QED BY <1>9 DEF found

\* One more event either is the newest of its kinds or leaves the newest one as it was.
LEMMA GrowsNewest ==
  ASSUME NEW e \in Events, Grows(e), NEW kinds
  PROVE  Newest(kinds)' = IF e.payload.kind \in kinds THEN Len(log) + 1 ELSE Newest(kinds)
<1> DEFINE N == Len(log)
           old == {i \in 1..Len(log) : Kind(i) \in kinds}
           new == {i \in 1..Len(log') : Kind(i)' \in kinds}
           Last(S) == IF S = {} THEN 0 ELSE CHOOSE i \in S : \A j \in S : j <= i
<1>1. Newest(kinds) = Last(old) /\ Newest(kinds)' = Last(new)
  BY DEF Newest
<1>2. CASE e.payload.kind \notin kinds
  <2>1. new = old
    BY <1>2, GrowsKinds
  <2> QED BY <1>1, <1>2, <2>1, Zenon
<1>3. CASE e.payload.kind \in kinds
  <2>1. N + 1 \in new /\ \A j \in new : j <= N + 1 /\ j \in Nat
    <3>1. N \in Nat /\ Len(log') = N + 1
      BY DEF Grows
    <3>2. N + 1 \in 1..Len(log') /\ \A i \in 1..Len(log') : i = N + 1 => Kind(i)' \in kinds
      BY <1>3, GrowsKinds
    <3>3. \A j \in 1..Len(log') : j <= N + 1 /\ j \in Nat
      BY <3>1
    <3> QED BY <3>2, <3>3
  <2>2. N \in Nat
    BY DEF Grows
  <2> HIDE DEF new, N
  <2>3. \A i \in new : (\A j \in new : j <= i) => i = N + 1
    BY <2>1, <2>2
  <2>4. Last(new) = N + 1
    BY <2>1, <2>3
  <2> QED BY <1>1, <1>3, <2>4 DEF N
<1> QED BY <1>2, <1>3

\* A run that ended before a later event stays ended, and that event may end it.
LEMMA GrowsEnded ==
  ASSUME NEW e \in Events, Grows(e), NEW i \in 1..Len(log')
  PROVE  EndedAfter(i)' <=>
           i # Len(log) + 1 /\ (EndedAfter(i) \/ e.payload.kind = "SessionEnded")
<1>1. /\ Len(log) \in Nat /\ Len(log') = Len(log) + 1
      /\ \A j \in 1..Len(log) : Kind(j)' = Kind(j)
      /\ \A j \in 1..Len(log') : j = Len(log) + 1 => Kind(j)' = e.payload.kind
  BY GrowsKinds DEF Grows
<1>2. EndedAfter(i)' <=> \E j \in (i + 1)..Len(log') : Kind(j)' = "SessionEnded"
  BY DEF EndedAfter
<1>3. CASE i = Len(log) + 1
  BY <1>1, <1>2, <1>3
<1>4. CASE i # Len(log) + 1
  <2>1. i \in 1..Len(log) /\ Len(log) + 1 \in (i + 1)..Len(log')
    BY <1>1, <1>4
  <2>2. \A j \in (i + 1)..Len(log') : j \in (i + 1)..Len(log) \/ j = Len(log) + 1
    BY <1>1, <2>1
  <2>3. \A j \in (i + 1)..Len(log) : j \in (i + 1)..Len(log') /\ j \in 1..Len(log)
    BY <1>1, <2>1
  <2>4. Len(log) + 1 \in 1..Len(log')
    BY <1>1
  <2> QED BY <1>1, <1>2, <1>4, <2>1, <2>2, <2>3, <2>4 DEF EndedAfter
<1> QED BY <1>3, <1>4

\* The unfinished tool calls of the log after one more event.
LEMMA GrowsTools ==
  ASSUME NEW e \in Events, Grows(e)
  PROVE  RunningTools' =
           IF e.payload.kind = "ToolStarted" THEN RunningTools \cup {e.payload.call}
           ELSE IF e.payload.kind = "ToolFinished" THEN RunningTools \ {e.payload.call}
           ELSE IF e.payload.kind = "SessionEnded" THEN {} ELSE RunningTools
<1> DEFINE Runs(i) ==
             /\ Kind(i) = "ToolStarted"
             /\ ~EndedAfter(i)
             /\ \A j \in (i + 1)..Len(log) :
                  Kind(j) = "ToolFinished" => log[j].payload.call # log[i].payload.call
           old == {i \in 1..Len(log) : Runs(i)}
           new == {i \in 1..Len(log') : Runs(i)'}
<1>1. /\ Len(log) \in Nat /\ Len(log') = Len(log) + 1
      /\ \A j \in 1..Len(log) : Kind(j)' = Kind(j) /\ log'[j] = log[j]
      /\ \A j \in 1..Len(log') :
           j = Len(log) + 1 => Kind(j)' = e.payload.kind /\ log'[j] = e
  BY GrowsKinds DEF Grows
<1>2. /\ RunningTools = {log[i].payload.call : i \in old}
      /\ RunningTools' = {log'[i].payload.call : i \in new}
  BY DEF RunningTools
<1>3. ASSUME NEW i \in 1..Len(log'), i = Len(log) + 1
      PROVE  Runs(i)' <=> e.payload.kind = "ToolStarted"
  <2>1. ~EndedAfter(i)'
    BY <1>3, GrowsEnded
  <2>2. (i + 1)..Len(log') = {}
    BY <1>1, <1>3
  <2> QED BY <1>1, <1>3, <2>1, <2>2
<1>4. ASSUME NEW i \in 1..Len(log)
      PROVE  Runs(i)' <=>
               /\ Runs(i)
               /\ e.payload.kind # "SessionEnded"
               /\ e.payload.kind = "ToolFinished" => e.payload.call # log[i].payload.call
  <2>1. i \in 1..Len(log') /\ i # Len(log) + 1 /\ Len(log) + 1 \in (i + 1)..Len(log')
    BY <1>1
  <2>2. \A j \in (i + 1)..Len(log') : j \in (i + 1)..Len(log) \/ j = Len(log) + 1
    BY <1>1, <2>1
  <2>3. \A j \in (i + 1)..Len(log) : j \in (i + 1)..Len(log') /\ j \in 1..Len(log)
    BY <1>1, <2>1
  <2>4. EndedAfter(i)' <=> (EndedAfter(i) \/ e.payload.kind = "SessionEnded")
    BY <2>1, GrowsEnded
  <2>5. Kind(i)' = Kind(i) /\ log'[i] = log[i]
    BY <1>1
  <2>6. Len(log) + 1 \in 1..Len(log')
    BY <1>1
  <2>7. (\A j \in (i + 1)..Len(log') :
            Kind(j)' = "ToolFinished" => log'[j].payload.call # log'[i].payload.call)
        <=> /\ \A j \in (i + 1)..Len(log) :
                 Kind(j) = "ToolFinished" => log[j].payload.call # log[i].payload.call
            /\ e.payload.kind = "ToolFinished" => e.payload.call # log[i].payload.call
    BY <1>1, <2>1, <2>2, <2>3, <2>5, <2>6
  <2> QED BY <2>4, <2>5, <2>7
<1> HIDE DEF Runs
<1>5. \A i \in 1..Len(log) : i \in 1..Len(log') /\ i # Len(log) + 1
  BY <1>1
<1>6. Len(log) + 1 \in 1..Len(log')
  BY <1>1
<1>7. \A i \in 1..Len(log') : i \in 1..Len(log) \/ i = Len(log) + 1
  BY <1>1
<1>8. CASE e.payload.kind = "ToolStarted"
  <2>1. new = old \cup {Len(log) + 1}
    BY <1>3, <1>4, <1>5, <1>6, <1>7, <1>8
  <2>2. log'[Len(log) + 1] = e /\ \A i \in old : log'[i] = log[i]
    BY <1>1, <1>6
  <2> QED BY <1>2, <1>8, <2>1, <2>2
<1>9. CASE e.payload.kind = "ToolFinished"
  <2>1. new = {i \in old : e.payload.call # log[i].payload.call}
    BY <1>3, <1>4, <1>5, <1>6, <1>7, <1>9
  <2>2. \A i \in old : log'[i] = log[i]
    BY <1>1
  <2> QED BY <1>2, <1>9, <2>1, <2>2
<1>10. CASE e.payload.kind = "SessionEnded"
  <2>1. new = {}
    BY <1>3, <1>4, <1>7, <1>10
  <2> QED BY <1>2, <1>10, <2>1
<1>11. CASE e.payload.kind \notin {"ToolStarted", "ToolFinished", "SessionEnded"}
  <2>1. new = old
    BY <1>3, <1>4, <1>5, <1>7, <1>11
  <2>2. \A i \in old : log'[i] = log[i]
    BY <1>1
  <2> QED BY <1>2, <1>11, <2>1, <2>2
<1> QED BY <1>8, <1>9, <1>10, <1>11

\* The unanswered requests of the log after one more event.
LEMMA GrowsRequests ==
  ASSUME NEW e \in Events, Grows(e)
  PROVE  OpenRequests' =
           IF e.payload.kind = "InteractionRequested" THEN OpenRequests \cup {e.payload.request}
           ELSE IF e.payload.kind = "InteractionResponded"
                THEN Without(OpenRequests, e.payload.response.request)
           ELSE IF e.payload.kind = "InteractionClosed"
                THEN Without(OpenRequests, e.payload.interaction)
           ELSE IF e.payload.kind = "SessionEnded" THEN {} ELSE OpenRequests
<1> DEFINE Open(i) ==
             /\ Kind(i) = "InteractionRequested"
             /\ ~EndedAfter(i)
             /\ \A j \in (i + 1)..Len(log) : ~Answers(j, log[i].payload.request.id)
           Resolves(id) ==
             \/ e.payload.kind = "InteractionResponded" /\ e.payload.response.request = id
             \/ e.payload.kind = "InteractionClosed" /\ e.payload.interaction = id
           old == {i \in 1..Len(log) : Open(i)}
           new == {i \in 1..Len(log') : Open(i)'}
<1>1. /\ Len(log) \in Nat /\ Len(log') = Len(log) + 1
      /\ \A j \in 1..Len(log) : Kind(j)' = Kind(j) /\ log'[j] = log[j]
      /\ \A j \in 1..Len(log') :
           j = Len(log) + 1 => Kind(j)' = e.payload.kind /\ log'[j] = e
  BY GrowsKinds DEF Grows
<1>2. /\ OpenRequests = {log[i].payload.request : i \in old}
      /\ OpenRequests' = {log'[i].payload.request : i \in new}
  BY DEF OpenRequests
<1>3. ASSUME NEW i \in 1..Len(log'), i = Len(log) + 1
      PROVE  Open(i)' <=> e.payload.kind = "InteractionRequested"
  <2>1. ~EndedAfter(i)'
    BY <1>3, GrowsEnded
  <2>2. (i + 1)..Len(log') = {}
    BY <1>1, <1>3
  <2> QED BY <1>1, <1>3, <2>1, <2>2
<1>4. ASSUME NEW i \in 1..Len(log)
      PROVE  Open(i)' <=> /\ Open(i)
                          /\ e.payload.kind # "SessionEnded"
                          /\ ~Resolves(log[i].payload.request.id)
  <2>1. i \in 1..Len(log') /\ i # Len(log) + 1 /\ Len(log) + 1 \in (i + 1)..Len(log')
    BY <1>1
  <2>2. \A j \in (i + 1)..Len(log') : j \in (i + 1)..Len(log) \/ j = Len(log) + 1
    BY <1>1, <2>1
  <2>3. \A j \in (i + 1)..Len(log) : j \in (i + 1)..Len(log') /\ j \in 1..Len(log)
    BY <1>1, <2>1
  <2>4. EndedAfter(i)' <=> (EndedAfter(i) \/ e.payload.kind = "SessionEnded")
    BY <2>1, GrowsEnded
  <2>5. Kind(i)' = Kind(i) /\ log'[i] = log[i]
    BY <1>1
  <2>6. Len(log) + 1 \in 1..Len(log')
    BY <1>1
  <2>7. ASSUME NEW id
        PROVE  /\ \A j \in 1..Len(log) : Answers(j, id)' <=> Answers(j, id)
               /\ \A j \in 1..Len(log') :
                    j = Len(log) + 1 => (Answers(j, id)' <=> Resolves(id))
    BY <1>1 DEF Answers
  <2>8. ASSUME NEW id
        PROVE  (\A j \in (i + 1)..Len(log') : ~Answers(j, id)')
               <=> /\ \A j \in (i + 1)..Len(log) : ~Answers(j, id)
                   /\ ~Resolves(id)
    <3> HIDE DEF Resolves
    <3> QED BY <2>1, <2>2, <2>3, <2>6, <2>7
  <2>9. PICK id : id = log[i].payload.request.id
    OBVIOUS
  <2>10. log'[i].payload.request.id = id
    BY <2>5, <2>9
  <2>11. (\A j \in (i + 1)..Len(log) : ~Answers(j, log[i].payload.request.id))
         <=> (\A j \in (i + 1)..Len(log) : ~Answers(j, id))
    BY <2>9
  <2>12. (\A j \in (i + 1)..Len(log) : ~Answers(j, log[i].payload.request.id))'
         <=> (\A j \in (i + 1)..Len(log') : ~Answers(j, id)')
    BY <2>10 DEF Answers
  <2>13. Resolves(log[i].payload.request.id) <=> Resolves(id)
    BY <2>9
  <2> HIDE DEF Resolves
  <2> QED BY <2>4, <2>5, <2>8, <2>11, <2>12, <2>13
<1> HIDE DEF Open
<1>5. \A i \in 1..Len(log) : i \in 1..Len(log') /\ i # Len(log) + 1
  BY <1>1
<1>6. Len(log) + 1 \in 1..Len(log')
  BY <1>1
<1>7. \A i \in 1..Len(log') : i \in 1..Len(log) \/ i = Len(log) + 1
  BY <1>1
<1>8. CASE e.payload.kind = "InteractionRequested"
  <2>1. new = old \cup {Len(log) + 1}
    BY <1>3, <1>4, <1>5, <1>6, <1>7, <1>8
  <2>2. log'[Len(log) + 1] = e /\ \A i \in old : log'[i] = log[i]
    BY <1>1, <1>6
  <2> QED BY <1>2, <1>8, <2>1, <2>2
<1>9. CASE e.payload.kind = "InteractionResponded"
  <2>1. new = {i \in old : log[i].payload.request.id # e.payload.response.request}
    BY <1>3, <1>4, <1>5, <1>6, <1>7, <1>9
  <2>2. \A i \in old : log'[i] = log[i]
    BY <1>1
  <2> QED BY <1>2, <1>9, <2>1, <2>2 DEF Without
<1>10. CASE e.payload.kind = "InteractionClosed"
  <2>1. new = {i \in old : log[i].payload.request.id # e.payload.interaction}
    BY <1>3, <1>4, <1>5, <1>6, <1>7, <1>10
  <2>2. \A i \in old : log'[i] = log[i]
    BY <1>1
  <2> QED BY <1>2, <1>10, <2>1, <2>2 DEF Without
<1>11. CASE e.payload.kind = "SessionEnded"
  <2>1. new = {}
    BY <1>3, <1>4, <1>7, <1>11
  <2> QED BY <1>2, <1>11, <2>1
<1>12. CASE e.payload.kind \notin {"InteractionRequested", "InteractionResponded",
                                  "InteractionClosed", "SessionEnded"}
  <2>1. new = old
    BY <1>3, <1>4, <1>5, <1>7, <1>12
  <2>2. \A i \in old : log'[i] = log[i]
    BY <1>1
  <2> QED BY <1>2, <1>12, <2>1, <2>2
<1> QED BY <1>8, <1>9, <1>10, <1>11, <1>12

\* Every event that changes the snapshot counts once.
LEMMA GrowsChanges ==
  ASSUME Numbers, NEW e \in Events, Grows(e)
  PROVE  /\ Cardinality(SnapshotChanges) \in Nat
         /\ Cardinality(SnapshotChanges)' =
              IF e.payload.kind \in SnapshotKinds THEN Cardinality(SnapshotChanges) + 1
              ELSE Cardinality(SnapshotChanges)
<1>1. Len(log) \in Nat
  BY DEF Grows
<1>2. SnapshotChanges \in SUBSET (1..Len(log)) /\ Len(log) + 1 \notin 1..Len(log)
  BY <1>1 DEF SnapshotChanges
<1>3. /\ Cardinality(SnapshotChanges) \in Nat
      /\ Cardinality(SnapshotChanges \cup {Len(log) + 1}) = Cardinality(SnapshotChanges) + 1
  BY <1>1, <1>2, Zenon DEF Numbers, Counting, Counts
<1>4. CASE e.payload.kind \in SnapshotKinds
  <2>1. SnapshotChanges' = SnapshotChanges \cup {Len(log) + 1}
    BY <1>4, GrowsKinds DEF SnapshotChanges, SnapshotKinds
  <2> QED BY <1>3, <1>4, <2>1
<1>5. CASE e.payload.kind \notin SnapshotKinds
  <2>1. SnapshotChanges' = SnapshotChanges
    BY <1>5, GrowsKinds DEF SnapshotChanges, SnapshotKinds
  <2> QED BY <1>3, <1>5, <2>1
<1> QED BY <1>3, <1>4, <1>5

\* The aggregate of the first event is what a log of one event says
\* (from_initial_event_with_config).
LEMMA InitProjection ==
  ASSUME Numbers, StreamInit
  PROVE  ProjectionMatchesLog /\ Initial \in SessionSnapshot
<1>1. PICK e \in Events : CanStart(e) /\ agg = FromInitialEvent(e) /\ log = <<e>>
  BY DEF StreamInit
<1>2. Len(log) = 1 /\ log[1] = e
  BY <1>1
<1>3. \A i \in 1..Len(log) : Kind(i) = "SessionStarted"
  BY <1>1, <1>2 DEF Kind, CanStart
<1>4. ASSUME NEW kinds, "SessionStarted" \notin kinds PROVE Newest(kinds) = 0
  BY <1>3, <1>4 DEF Newest
<1>5. RunningTools = {} /\ OpenRequests = {} /\ SnapshotChanges = {}
  BY <1>3 DEF RunningTools, OpenRequests, SnapshotChanges
<1>6. Cardinality(SnapshotChanges) = 0
  BY <1>5 DEF Numbers, Counting
<1>7. /\ agg.session = Initial /\ agg.tools = {} /\ agg.pending = {} /\ agg.outcome = None
      /\ agg.plan = 0 /\ agg.progress = 0
  BY <1>1, <1>2 DEF FromInitialEvent, Initial
<1>8. /\ Newest({"StateChanged", "SessionEnded"}) = 0 /\ Newest({"ConnectionChanged"}) = 0
      /\ Newest({"SessionEnded"}) = 0 /\ Newest({"PlanUpdated"}) = 0
      /\ Newest({"ProgressUpdated"}) = 0
  BY <1>4
<1>9. agg.session \in SessionSnapshot /\ agg.session.revision \in Nat
  BY InitStream, AggregateAssumption
  DEF StreamInv, StreamTypeOK, Aggregates, SessionSnapshot, AggregateAssumption
<1>10. Initial \in SessionSnapshot
  BY <1>7, <1>9
<1> QED
  BY <1>10, <1>5, <1>6, <1>7, <1>8, <1>9
  DEF ProjectionMatchesLog, ReferenceState, ReferenceConnection, NewestRevision

\* The newest payload about something after one more event.
LEMMA GrowsPayload ==
  ASSUME Numbers, NEW e \in Events, Grows(e), NEW kinds, Newest(kinds) # 0
  PROVE  log'[Newest(kinds)] = log[Newest(kinds)]
<1> QED BY NewestIsThere DEF Grows

\* One accepted event changes the aggregate as it changes what the log says (apply,
\* apply_tool_activity).
LEMMA ApplyProjection ==
  ASSUME Numbers, StreamInv, ProjectionMatchesLog, Initial \in SessionSnapshot,
         NEW e \in Events, Applies(agg, e), agg' = Apply(agg, e), log' = Append(log, e)
  PROVE  ProjectionMatchesLog' /\ Initial' \in SessionSnapshot
<1> DEFINE q == Reduce(agg, e.payload, e.at)
           N == Len(log)
<1>1. /\ agg \in Aggregates /\ log \in Seq(Events) /\ N \in Nat /\ N > 0
      /\ e.payload \in Payloads /\ e.at \in Nat
  BY EventFields DEF StreamInv, StreamTypeOK, LogIsContiguous
<1>2. Grows(e)
  BY <1>1 DEF Grows
<1>3. /\ agg'.session = q.session /\ agg'.pending = q.pending /\ agg'.tools = q.tools
      /\ agg'.outcome = q.outcome /\ agg'.plan = q.plan /\ agg'.progress = q.progress
  BY StreamWindow, ApplyLemma DEF StreamInv, PendingIdsAreUnique
<1>4. log'[N + 1] = e /\ Initial' = Initial /\ N + 1 # 0
  BY <1>1, <1>2 DEF Grows, Initial
<1> HIDE DEF q, N
<1>5. agg'.session.state = ReferenceState'
  <2>1. q.session.state = IF e.payload.kind = "StateChanged" THEN e.payload.state
                          ELSE IF e.payload.kind = "SessionEnded" THEN e.payload.outcome
                          ELSE agg.session.state
    BY <1>1, ReduceEffect, Zenon DEF Applies, q
  <2> DEFINE kinds == {"StateChanged", "SessionEnded"}
             i == Newest(kinds)
  <2>2. i' = IF e.payload.kind \in kinds THEN N + 1 ELSE i
    BY <1>2, GrowsNewest DEF N
  <2>3. i # 0 => log'[i] = log[i]
    BY <1>2, GrowsPayload, Zenon
  <2>4. agg.session.state = IF i = 0 THEN Initial.state
                            ELSE IF log[i].payload.kind = "SessionEnded"
                                 THEN log[i].payload.outcome ELSE log[i].payload.state
    BY DEF ProjectionMatchesLog, ReferenceState, Kind
  <2>5. ReferenceState' = IF i' = 0 THEN Initial'.state
                          ELSE IF log'[i'].payload.kind = "SessionEnded"
                               THEN log'[i'].payload.outcome ELSE log'[i'].payload.state
    BY DEF ReferenceState, Kind
  <2> HIDE DEF i
  <2>6. CASE e.payload.kind \in kinds
    BY <1>3, <1>4, <2>1, <2>2, <2>5, <2>6, Zenon
  <2>7. CASE e.payload.kind \notin kinds
    BY <1>3, <1>4, <2>1, <2>2, <2>3, <2>4, <2>5, <2>7, Zenon
  <2> QED BY <2>6, <2>7
<1>6. agg'.session.connection = ReferenceConnection'
  <2>1. q.session.connection = IF e.payload.kind = "ConnectionChanged"
                               THEN e.payload.connection ELSE agg.session.connection
    BY <1>1, ReduceEffect, Zenon DEF Applies, q
  <2> DEFINE i == Newest({"ConnectionChanged"})
  <2>2. i' = IF e.payload.kind \in {"ConnectionChanged"} THEN N + 1 ELSE i
    BY <1>2, GrowsNewest DEF N
  <2>3. i # 0 => log'[i] = log[i]
    BY <1>2, GrowsPayload, ZenonT(20)
  <2>4. agg.session.connection = IF i = 0 THEN Initial.connection
                                 ELSE log[i].payload.connection
    BY DEF ProjectionMatchesLog, ReferenceConnection
  <2>5. ReferenceConnection' = IF i' = 0 THEN Initial'.connection
                               ELSE log'[i'].payload.connection
    BY DEF ReferenceConnection
  <2> HIDE DEF i
  <2> QED BY <1>3, <1>4, <2>1, <2>2, <2>3, <2>4, <2>5, Zenon
<1>7. agg'.session.revision = (Initial.revision + Cardinality(SnapshotChanges))'
  <2>1. q.session.revision = IF e.payload.kind \in SnapshotKinds
                             THEN agg.session.revision + 1 ELSE agg.session.revision
    BY <1>1, ReduceEffect, Zenon DEF Applies, q
  <2>2. /\ Cardinality(SnapshotChanges) \in Nat
        /\ Cardinality(SnapshotChanges)' =
             IF e.payload.kind \in SnapshotKinds THEN Cardinality(SnapshotChanges) + 1
             ELSE Cardinality(SnapshotChanges)
    BY <1>2, GrowsChanges
  <2>3. Initial.revision \in Nat
    BY AggregateAssumption DEF SessionSnapshot, AggregateAssumption
  <2>4. agg.session.revision = Initial.revision + Cardinality(SnapshotChanges)
    BY DEF ProjectionMatchesLog
  <2> QED BY <1>3, <1>4, <2>1, <2>2, <2>3, <2>4
<1>8. agg'.tools = RunningTools'
  <2>1. agg.tools = RunningTools
    BY DEF ProjectionMatchesLog
  <2>2. q.tools = IF e.payload.kind = "ToolStarted" THEN agg.tools \cup {e.payload.call}
                  ELSE IF e.payload.kind = "ToolFinished" THEN agg.tools \ {e.payload.call}
                  ELSE IF e.payload.kind = "SessionEnded" THEN {} ELSE agg.tools
    BY <1>1, ReduceEffect, ZenonT(20) DEF Applies, q
  <2> QED BY <1>2, <1>3, <2>1, <2>2, GrowsTools
<1>9. agg'.pending = OpenRequests'
  <2>1. agg.pending = OpenRequests
    BY DEF ProjectionMatchesLog
  <2>2. q.pending =
          IF e.payload.kind = "InteractionRequested" THEN agg.pending \cup {e.payload.request}
          ELSE IF e.payload.kind = "InteractionResponded"
               THEN Without(agg.pending, e.payload.response.request)
          ELSE IF e.payload.kind = "InteractionClosed"
               THEN Without(agg.pending, e.payload.interaction)
          ELSE IF e.payload.kind = "SessionEnded" THEN {} ELSE agg.pending
    BY <1>1, ReduceEffect, Zenon DEF Applies, q
  <2> QED BY <1>2, <1>3, <2>1, <2>2, GrowsRequests
<1>10. agg'.outcome = (LET i == Newest({"SessionEnded"})
                       IN  IF i = 0 THEN None ELSE log[i].payload.outcome)'
  <2>1. q.outcome = IF e.payload.kind = "SessionEnded" THEN e.payload.outcome ELSE agg.outcome
    BY <1>1, ReduceEffect, Zenon DEF Applies, q
  <2> DEFINE i == Newest({"SessionEnded"})
  <2>2. i' = IF e.payload.kind \in {"SessionEnded"} THEN N + 1 ELSE i
    BY <1>2, GrowsNewest DEF N
  <2>3. i # 0 => log'[i] = log[i]
    BY <1>2, GrowsPayload, Zenon
  <2>4. agg.outcome = IF i = 0 THEN None ELSE log[i].payload.outcome
    BY DEF ProjectionMatchesLog
  <2>5. agg'.outcome = IF i' = 0 THEN None ELSE log'[i'].payload.outcome
    <3> HIDE DEF i
    <3> QED BY <1>3, <1>4, <2>1, <2>2, <2>3, <2>4, Zenon
  <2> QED BY <2>5
<1>11. ASSUME NEW kind \in {"PlanUpdated", "ProgressUpdated"}
       PROVE  NewestRevision(kind)' = IF e.payload.kind = kind THEN e.payload.revision
                                      ELSE NewestRevision(kind)
  <2> DEFINE i == Newest({kind})
  <2>1. i' = IF e.payload.kind \in {kind} THEN N + 1 ELSE i
    BY <1>2, GrowsNewest DEF N
  <2>2. i # 0 => log'[i] = log[i]
    BY <1>2, GrowsPayload, ZenonT(20)
  <2>3. /\ NewestRevision(kind) = IF i = 0 THEN 0 ELSE log[i].payload.revision
        /\ NewestRevision(kind)' = IF i' = 0 THEN 0 ELSE log'[i'].payload.revision
    BY DEF NewestRevision
  <2> HIDE DEF i
  <2> QED BY <1>4, <2>1, <2>2, <2>3, Zenon
<1>12. /\ agg'.plan = NewestRevision("PlanUpdated")'
       /\ agg'.progress = NewestRevision("ProgressUpdated")'
  <2>1. /\ q.plan = IF e.payload.kind = "PlanUpdated" THEN e.payload.revision ELSE agg.plan
        /\ q.progress = IF e.payload.kind = "ProgressUpdated" THEN e.payload.revision
                        ELSE agg.progress
    BY <1>1, ReduceEffect, ZenonT(20) DEF Applies, q
  <2>2. /\ agg.plan = NewestRevision("PlanUpdated")
        /\ agg.progress = NewestRevision("ProgressUpdated")
    BY DEF ProjectionMatchesLog
  <2> QED BY <1>3, <1>11, <2>1, <2>2
<1> QED BY <1>4, <1>5, <1>6, <1>7, <1>8, <1>9, <1>10, <1>12 DEF ProjectionMatchesLog

\* Every step keeps the aggregate what the log says.
LEMMA NextProjection ==
  ASSUME Numbers, StreamInv, ProjectionMatchesLog, Initial \in SessionSnapshot,
         [StreamNext]_streamVars
  PROVE  ProjectionMatchesLog' /\ Initial' \in SessionSnapshot
<1>1. CASE ApplyEvent
  BY <1>1, ApplyProjection DEF ApplyEvent
<1>2. CASE UNCHANGED streamVars
  <2>1. agg' = agg /\ log' = log
    BY <1>2 DEF streamVars
  <2>2. Initial' = Initial /\ SnapshotChanges' = SnapshotChanges
    BY <2>1 DEF Initial, SnapshotChanges, Kind
  <2>3. RunningTools' = RunningTools
    BY <2>1 DEF RunningTools, Kind, EndedAfter
  <2>4. OpenRequests' = OpenRequests
    BY <2>1 DEF OpenRequests, Kind, EndedAfter, Answers
  <2>5. ASSUME NEW kinds PROVE Newest(kinds)' = Newest(kinds)
    BY <2>1 DEF Newest, Kind
  <2>6. ReferenceState' = ReferenceState /\ ReferenceConnection' = ReferenceConnection
    BY <2>1, <2>2, <2>5 DEF ReferenceState, ReferenceConnection, Kind
  <2>7. ASSUME NEW kind PROVE NewestRevision(kind)' = NewestRevision(kind)
    BY <2>1, <2>5 DEF NewestRevision
  <2> QED BY <2>1, <2>2, <2>3, <2>4, <2>5, <2>6, <2>7 DEF ProjectionMatchesLog
<1>3. RefuseEvent => UNCHANGED streamVars
  BY DEF RefuseEvent
<1> QED BY <1>1, <1>2, <1>3 DEF StreamNext
=============================================================================
