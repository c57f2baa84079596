--------------------------- MODULE CedarIrqProofs ---------------------------
(***************************************************************************)
(* Proofs about CedarIrq, for every number of clients and of interrupt     *)
(* sources.  The argument follows the flag and the value of one source     *)
(* through the handler's two stores and the steps of the one client whose  *)
(* mutex lets it use the source; the flags that open and release write are *)
(* out of play because they are written only at ref_count 0.               *)
(***************************************************************************)
EXTENDS CedarIrq, FiniteSetTheorems, TLAPS

\* The points at which a client has a frame on its source.
InFrame == {"started", "got"} \cup Waiting

Sessions == {c \in Clients : pc[c] \in InSession}

\* The history variables have their types, too.
HistoryOK ==
    /\ fresh \in [Engines -> BOOLEAN]
    /\ leftover \in [Engines -> BOOLEAN]
    /\ timedout \in [Clients -> BOOLEAN]
    /\ raced \in [Clients -> BOOLEAN]

\* The handler has something to store or to wake only for a source it found
\* raised.
IsrShape == (isr.todo # {} => isr.hit) /\ (isr.hit => isr.at # 0)

\* A client with a frame owns the mutex of its source.
FrameOwner == \A c \in Clients : pc[c] \in InFrame => lock[eng[c]] = c

\* An enabled source has not been answered since its start.
EnabledUnanswered == \A e \in Engines : ien[e] => ~fresh[e]

\* Whatever tells the client of a frame that it is done comes from its own
\* interrupt or was there at the start.
Explained(e) == fresh[e] \/ leftover[e]
SignalsExplained ==
    \A c \in Clients :
      /\ pc[c] \in InFrame /\ (irq_flag[eng[c]] = 1 \/ Pending(eng[c])) => Explained(eng[c])
      /\ pc[c] \in Waiting /\ irq_value[eng[c]] = 1 => Explained(eng[c])
      /\ pc[c] = "got" /\ res[c] = 1 => Explained(eng[c])

\* The handler has stored the flag of e and not yet the value, or the value
\* and not yet the flag.
ValueLeft(e) == isr.at # 0 /\ IsrOrder[isr.at] = e /\ isr.todo = {"value"}
FlagLeft(e) == isr.at # 0 /\ IsrOrder[isr.at] = e /\ isr.todo = {"flag"}

\* A WAIT that will not time out finds value 1, unless it raced with the
\* handler: a set flag comes with a set value or one about to be set, and the
\* handler does not store the flag last when WAIT has cleared its value.
ValueFollows ==
    \A c \in Clients :
      LET good == irq_value[eng[c]] = 1 \/ raced[c] IN
      /\ pc[c] \in {"w_check", "w_test", "w_asleep"} /\ FlagLeft(eng[c]) => good
      /\ pc[c] \in {"w_test", "w_asleep"} /\ irq_flag[eng[c]] = 1 => good \/ ValueLeft(eng[c])
      /\ pc[c] \in {"w_clear", "w_ret"} => timedout[c] \/ good \/ ValueLeft(eng[c])
      /\ pc[c] = "got" /\ res[c] = 0 => timedout[c] \/ raced[c]

IrqInv ==
    /\ TypeOK /\ HistoryOK /\ IsrShape /\ FrameOwner /\ EnabledUnanswered
    /\ NoMissedWake /\ SignalsExplained /\ ValueFollows

LEMMA EnginesAt ==
    /\ \A i \in 1..Len(IsrOrder) : IsrOrder[i] \in Engines
    /\ \A i, j \in 1..Len(IsrOrder) : IsrOrder[i] = IsrOrder[j] => i = j
    /\ IsrOrder[1] \in Engines
  BY IrqAssumption DEF Engines

\* The clients in a session are finitely many.
LEMMA SessionsCount ==
    ASSUME TypeOK
    PROVE  /\ Cardinality(Sessions) \in Nat
           /\ \A c \in Clients \ Sessions :
                Cardinality(Sessions \cup {c}) = Cardinality(Sessions) + 1
           /\ \A c \in Sessions : Cardinality(Sessions \ {c}) = Cardinality(Sessions) - 1
  <1>1. Sessions \subseteq Clients
    BY DEF Sessions
  <1>2. IsFiniteSet(Sessions)
    BY <1>1, IrqAssumption, FS_Subset
  <1>3. QED
    BY <1>2, FS_CardinalityType, FS_AddElement, FS_RemoveElement

\* ref_count 0 means that no client is in a session.
LEMMA ZeroMeansNoSession ==
    ASSUME TypeOK, ref_count = 0, NEW c \in Clients PROVE pc[c] \notin InSession
  <1>1. SUFFICES ASSUME c \in Sessions PROVE FALSE
    BY DEF Sessions
  <1>2. Cardinality(Sessions \ {c}) \in Nat
    <2>1. IsFiniteSet(Sessions \ {c})
      BY IrqAssumption, FS_Subset DEF Sessions
    <2>2. QED
      BY <2>1, FS_CardinalityType
  <1>3. ref_count = Cardinality(Sessions) + orphans /\ orphans \in Nat
    BY IrqAssumption DEF TypeOK, Sessions
  <1>4. Cardinality(Sessions \ {c}) = Cardinality(Sessions) - 1 /\ Cardinality(Sessions) \in Nat
    BY <1>1, SessionsCount
  <1>5. QED
    BY <1>2, <1>3, <1>4

\* The records the handler leaves behind when it goes on.
IsrRecords == [at : 0..Len(IsrOrder), hit : BOOLEAN, todo : SUBSET {"flag", "value"}]

LEMMA NextSourceShape ==
    ASSUME TypeOK, isr.at # 0
    PROVE  NextSource \in IsrRecords /\ NextSource.todo = {} /\ ~NextSource.hit
  <1>1. CASE isr.at = Len(IsrOrder)
    BY <1>1, IrqAssumption DEF NextSource, NoIsr, IsrRecords
  <1>2. CASE isr.at # Len(IsrOrder)
    <2>1. isr.at + 1 \in 0..Len(IsrOrder)
      BY <1>2, IrqAssumption DEF TypeOK
    <2>2. NextSource = [at |-> isr.at + 1, hit |-> FALSE, todo |-> {}]
      BY <1>2 DEF NextSource, NoIsr
    <2>3. QED
      BY <2>1, <2>2 DEF IsrRecords
  <1>3. QED
    BY <1>1, <1>2

LEMMA TodoSets ==
    /\ {} # {"value"} /\ {} # {"flag"}
    /\ {"value", "flag"} # {"value"} /\ {"value", "flag"} # {"flag"}
  <1>1. "value" \in {"value", "flag"} /\ "flag" \in {"value", "flag"} /\ "value" # "flag"
    OBVIOUS
  <1>2. QED
    BY <1>1

\* One of the handler's stores is left: that is what Storing sees.
LEMMA LeftIsStoring ==
    ASSUME NEW e PROVE (ValueLeft(e) \/ FlagLeft(e)) => Storing(e)
  BY DEF ValueLeft, FlagLeft, Storing

\* A step of one client that stays in its session, or outside of it.
LEMMA SameSessions ==
    ASSUME TypeOK, NEW c \in Clients, NEW l, pc' = [pc EXCEPT ![c] = l],
           l \in InSession <=> pc[c] \in InSession
    PROVE  Sessions' = Sessions
  BY DEF TypeOK, Sessions

LEMMA IrqInit == Init => IrqInv
  <1>1. SUFFICES ASSUME Init PROVE IrqInv
    OBVIOUS
  <1>2. {c \in Clients : pc[c] \in InSession} = {}
    BY <1>1 DEF Init, InSession, Waiting
  <1>3. Cardinality({c \in Clients : pc[c] \in InSession}) = 0
    BY <1>2, FS_EmptySet
  <1>4. TypeOK
    BY <1>1, <1>3, EnginesAt, IrqAssumption DEF Init, TypeOK, NoIsr
  <1>5. HistoryOK /\ IsrShape /\ FrameOwner /\ EnabledUnanswered
    BY <1>1 DEF Init, HistoryOK, IsrShape, FrameOwner, EnabledUnanswered, InFrame, Waiting, NoIsr
  <1>6. NoMissedWake /\ SignalsExplained /\ ValueFollows
    BY <1>1 DEF Init, NoMissedWake, SignalsExplained, ValueFollows, InFrame, Waiting
  <1>7. QED
    BY <1>4, <1>5, <1>6 DEF IrqInv

LEMMA IrqNext == IrqInv /\ [Next]_vars => IrqInv'
  <1> SUFFICES ASSUME IrqInv, [Next]_vars PROVE IrqInv'
    OBVIOUS
  <1> USE IrqAssumption, EnginesAt DEF clientVars, sessionVars, hwVars, flagVars, Goto
  <1>s. /\ Cardinality(Sessions) \in Nat
        /\ ref_count = Cardinality(Sessions) + orphans /\ orphans \in Nat
    BY SessionsCount DEF IrqInv, TypeOK, Sessions
  <1>z. ref_count = 0 => \A c \in Clients : pc[c] \notin InSession
    BY ZeroMeansNoSession DEF IrqInv
  <1>1. ASSUME NEW c \in Clients, Open(c) PROVE IrqInv'
    <2>1. TypeOK'
      <3>1. Sessions' = Sessions
        BY <1>1, SameSessions DEF Open, IrqInv, InFrame, InSession, Waiting
      <3>2. ref_count' = Cardinality(Sessions)' + orphans'
        BY <1>1, <1>s, <3>1 DEF Open
      <3>3. QED
        BY <1>1, <3>2 DEF Open, IrqInv, TypeOK, InFrame, InSession, Waiting, Sessions
    <2>2. HistoryOK'
      BY <1>1 DEF Open, IrqInv, TypeOK, HistoryOK, Storing
    <2>3. IsrShape' /\ FrameOwner' /\ EnabledUnanswered'
      BY <1>1 DEF Open, IrqInv, TypeOK, HistoryOK, IsrShape, FrameOwner,
         EnabledUnanswered, InFrame, InSession, Waiting
    <2>4. NoMissedWake'
      BY <1>1, <1>z DEF Open, IrqInv, TypeOK, IsrShape, NoMissedWake, Pending, InFrame,
         InSession, Waiting
    <2>5. SignalsExplained'
      BY <1>1, <1>z DEF Open, IrqInv, TypeOK, HistoryOK, IsrShape, FrameOwner,
         SignalsExplained, Explained, Pending, InFrame, InSession, Waiting
    <2>6. ValueFollows'
      BY <1>1, <1>z DEF Open, IrqInv, TypeOK, HistoryOK, IsrShape, FrameOwner,
         ValueFollows, ValueLeft, FlagLeft, Storing, InFrame, InSession, Waiting
    <2>7. QED
      BY <2>1, <2>2, <2>3, <2>4, <2>5, <2>6 DEF IrqInv
  <1>2. ASSUME NEW c \in Clients, Release(c) PROVE IrqInv'
    <2>0. ref_count' = Cardinality(Sessions)' + orphans'
      <3>1. CASE pc[c] = "open"
        <4>1. Sessions' = Sessions
          BY <1>2, <3>1, SameSessions DEF Release, IrqInv, InFrame, InSession, Waiting
        <4>2. QED
          BY <1>2, <1>s, <3>1, <4>1 DEF Release
      <3>2. CASE pc[c] # "open"
        <4>1. Sessions' = Sessions \ {c} /\ c \in Sessions
          BY <1>2, <3>2 DEF Release, IrqInv, TypeOK, Sessions, InFrame, InSession, Waiting
        <4>2. QED
          BY <1>2, <1>s, <3>2, <4>1, SessionsCount DEF Release, IrqInv
      <3>3. QED
        BY <3>1, <3>2
    <2>1. TypeOK'
      BY <1>2, <2>0 DEF Release, Forget, IrqInv, TypeOK, InFrame, InSession, Waiting,
         Sessions
    <2>2. HistoryOK'
      BY <1>2 DEF Release, Forget, IrqInv, TypeOK, HistoryOK, Storing
    <2>3. IsrShape' /\ FrameOwner' /\ EnabledUnanswered'
      BY <1>2 DEF Release, Forget, IrqInv, TypeOK, HistoryOK, IsrShape, FrameOwner,
         EnabledUnanswered, InFrame, InSession, Waiting
    <2>4. NoMissedWake'
      BY <1>2, <1>z DEF Release, Forget, IrqInv, TypeOK, IsrShape, NoMissedWake, Pending,
         InFrame, InSession, Waiting
    <2>5. SignalsExplained'
      BY <1>2, <1>z DEF Release, Forget, IrqInv, TypeOK, HistoryOK, IsrShape, FrameOwner,
         SignalsExplained, Explained, Pending, InFrame, InSession, Waiting
    <2>6. ValueFollows'
      BY <1>2, <1>z DEF Release, Forget, IrqInv, TypeOK, HistoryOK, IsrShape, FrameOwner,
         ValueFollows, ValueLeft, FlagLeft, Storing, InFrame, InSession, Waiting
    <2>7. QED
      BY <2>1, <2>2, <2>3, <2>4, <2>5, <2>6 DEF IrqInv
  <1>3. ASSUME NEW c \in Clients, EngineReq(c) PROVE IrqInv'
    <2>1. TypeOK'
      <3>1. Sessions' = Sessions \cup {c} /\ c \notin Sessions
        BY <1>3 DEF EngineReq, IrqInv, TypeOK, Sessions, InFrame, InSession, Waiting
      <3>2. ref_count' = Cardinality(Sessions)' + orphans'
        BY <1>3, <1>s, <3>1, SessionsCount DEF EngineReq, IrqInv
      <3>3. QED
        BY <1>3, <3>2 DEF EngineReq, IrqInv, TypeOK, InFrame, InSession, Waiting, Sessions
    <2>2. HistoryOK'
      BY <1>3 DEF EngineReq, IrqInv, TypeOK, HistoryOK, Storing
    <2>3. IsrShape' /\ FrameOwner' /\ EnabledUnanswered'
      BY <1>3 DEF EngineReq, IrqInv, TypeOK, HistoryOK, IsrShape, FrameOwner,
         EnabledUnanswered, InFrame, InSession, Waiting
    <2>4. NoMissedWake'
      BY <1>3, <1>z DEF EngineReq, IrqInv, TypeOK, IsrShape, NoMissedWake, Pending,
         InFrame, InSession, Waiting
    <2>5. SignalsExplained'
      BY <1>3, <1>z DEF EngineReq, IrqInv, TypeOK, HistoryOK, IsrShape, FrameOwner,
         SignalsExplained, Explained, Pending, InFrame, InSession, Waiting
    <2>6. ValueFollows'
      BY <1>3, <1>z DEF EngineReq, IrqInv, TypeOK, HistoryOK, IsrShape, FrameOwner,
         ValueFollows, ValueLeft, FlagLeft, Storing, InFrame, InSession, Waiting
    <2>7. QED
      BY <2>1, <2>2, <2>3, <2>4, <2>5, <2>6 DEF IrqInv
  <1>4. ASSUME NEW c \in Clients, EngineRel(c) PROVE IrqInv'
    <2>1. TypeOK'
      <3>1. Sessions' = Sessions \ {c} /\ c \in Sessions
        BY <1>4 DEF EngineRel, IrqInv, TypeOK, Sessions, InFrame, InSession, Waiting
      <3>2. ref_count' = Cardinality(Sessions)' + orphans'
        BY <1>4, <1>s, <3>1, SessionsCount DEF EngineRel, IrqInv
      <3>3. hw' \in [Engines -> {"idle", "running", "done"}] /\ ien' \in [Engines -> BOOLEAN]
        <4>1. CASE ref_count' = 0
          BY <1>4, <4>1 DEF EngineRel
        <4>2. CASE ref_count' # 0
          BY <1>4, <4>2 DEF EngineRel, IrqInv, TypeOK
        <4>3. QED
          BY <4>1, <4>2
      <3>4. pc' \in [Clients -> {"closed", "open"} \cup InSession]
        BY <1>4 DEF EngineRel, IrqInv, TypeOK
      <3>5. QED
        BY <1>4, <3>2, <3>3, <3>4 DEF EngineRel, IrqInv, TypeOK, Sessions
    <2>2. HistoryOK'
      BY <1>4 DEF EngineRel, IrqInv, TypeOK, HistoryOK, Storing
    <2>3. IsrShape' /\ FrameOwner' /\ EnabledUnanswered'
      BY <1>4 DEF EngineRel, IrqInv, TypeOK, HistoryOK, IsrShape, FrameOwner,
         EnabledUnanswered, InFrame, InSession, Waiting
    <2>4. NoMissedWake'
      BY <1>4, <1>z DEF EngineRel, IrqInv, TypeOK, IsrShape, NoMissedWake, Pending,
         InFrame, InSession, Waiting
    <2>5. SignalsExplained'
      BY <1>4, <1>z DEF EngineRel, IrqInv, TypeOK, HistoryOK, IsrShape, FrameOwner,
         SignalsExplained, Explained, Pending, InFrame, InSession, Waiting
    <2>6. ValueFollows'
      BY <1>4, <1>z DEF EngineRel, IrqInv, TypeOK, HistoryOK, IsrShape, FrameOwner,
         ValueFollows, ValueLeft, FlagLeft, Storing, InFrame, InSession, Waiting
    <2>7. QED
      BY <2>1, <2>2, <2>3, <2>4, <2>5, <2>6 DEF IrqInv
  <1>5. ASSUME NEW c \in Clients, NEW e \in Engines, Start(c, e) PROVE IrqInv'
    <2>1. TypeOK'
      <3>1. Sessions' = Sessions
        BY <1>5, SameSessions DEF Start, IrqInv, InFrame, InSession, Waiting
      <3>2. ref_count' = Cardinality(Sessions)' + orphans'
        BY <1>5, <1>s, <3>1 DEF Start
      <3>3. QED
        BY <1>5, <3>2 DEF Start, Pending, IrqInv, TypeOK, InFrame, InSession, Waiting,
           Sessions
    <2>2. HistoryOK'
      BY <1>5 DEF Start, Pending, IrqInv, TypeOK, HistoryOK, Storing
    <2>3. IsrShape' /\ FrameOwner' /\ EnabledUnanswered'
      BY <1>5 DEF Start, Pending, IrqInv, TypeOK, HistoryOK, IsrShape, FrameOwner,
         EnabledUnanswered, InFrame, InSession, Waiting
    <2>4. NoMissedWake'
      BY <1>5, <1>z DEF Start, IrqInv, TypeOK, IsrShape, NoMissedWake, Pending, InFrame,
         InSession, Waiting
    <2>5. SignalsExplained'
      <3>1. \A u \in Clients \ {c} : pc[u] \in InFrame => eng[u] # e /\ eng[u] \in Engines
        BY <1>5 DEF Start, IrqInv, TypeOK, FrameOwner
      <3>2. \A u \in Clients \ {c} : pc[u] \in InFrame =>
              eng'[u] = eng[u] /\ Explained(eng[u])' = Explained(eng[u])
        BY <1>5, <3>1 DEF Start, IrqInv, TypeOK, HistoryOK, Explained
      <3>3. \A u \in Clients \ {c} : pc'[u] = pc[u]
        BY <1>5 DEF Start, IrqInv, TypeOK
      <3>4. /\ pc'[c] = "started" /\ eng'[c] = e
            /\ (irq_flag[e] = 1 \/ Pending(e)) => Explained(e)'
        BY <1>5 DEF Start, IrqInv, TypeOK, HistoryOK, Explained
      <3>5. irq_flag' = irq_flag /\ irq_value' = irq_value /\ isr' = isr /\ res' = res
        BY <1>5 DEF Start
      <3>6. ASSUME NEW u \in Clients
            PROVE  /\ pc'[u] \in InFrame /\ (irq_flag'[eng'[u]] = 1 \/ Pending(eng[u])')
                        => Explained(eng[u])'
                   /\ pc'[u] \in Waiting /\ irq_value'[eng'[u]] = 1 => Explained(eng[u])'
                   /\ pc'[u] = "got" /\ res'[u] = 1 => Explained(eng[u])'
        <4>1. CASE u = c
          BY <3>4, <3>5, <4>1 DEF Pending, Waiting, Explained
        <4>2. CASE u # c
          BY <3>2, <3>3, <3>5, <4>2
             DEF IrqInv, SignalsExplained, Pending, Explained, InFrame, Waiting
        <4>3. QED
          BY <4>1, <4>2
      <3>7. QED
        BY <3>6 DEF SignalsExplained
    <2>6. ValueFollows'
      BY <1>5, <1>z DEF Start, Pending, IrqInv, TypeOK, HistoryOK, IsrShape, FrameOwner,
         ValueFollows, ValueLeft, FlagLeft, Storing, InFrame, InSession, Waiting
    <2>7. QED
      BY <2>1, <2>2, <2>3, <2>4, <2>5, <2>6 DEF IrqInv
  <1>6. ASSUME NEW c \in Clients, WaitZero(c) PROVE IrqInv'
    <2>1. TypeOK'
      <3>1. Sessions' = Sessions
        BY <1>6, SameSessions DEF WaitZero, IrqInv, InFrame, InSession, Waiting
      <3>2. ref_count' = Cardinality(Sessions)' + orphans'
        BY <1>6, <1>s, <3>1 DEF WaitZero
      <3>3. QED
        BY <1>6, <3>2 DEF WaitZero, IrqInv, TypeOK, InFrame, InSession, Waiting, Sessions
    <2>2. HistoryOK'
      BY <1>6 DEF WaitZero, IrqInv, TypeOK, HistoryOK, Storing
    <2>3. IsrShape' /\ FrameOwner' /\ EnabledUnanswered'
      BY <1>6 DEF WaitZero, IrqInv, TypeOK, HistoryOK, IsrShape, FrameOwner,
         EnabledUnanswered, InFrame, InSession, Waiting
    <2>4. NoMissedWake'
      BY <1>6, <1>z DEF WaitZero, IrqInv, TypeOK, IsrShape, NoMissedWake, Pending,
         InFrame, InSession, Waiting
    <2>5. SignalsExplained'
      BY <1>6, <1>z DEF WaitZero, IrqInv, TypeOK, HistoryOK, IsrShape, FrameOwner,
         SignalsExplained, Explained, Pending, InFrame, InSession, Waiting
    <2>6. ValueFollows'
      BY <1>6, LeftIsStoring DEF WaitZero, IrqInv, TypeOK, HistoryOK, FrameOwner,
         ValueFollows, InFrame, InSession, Waiting, ValueLeft, FlagLeft
    <2>7. QED
      BY <2>1, <2>2, <2>3, <2>4, <2>5, <2>6 DEF IrqInv
  <1>7. ASSUME NEW c \in Clients, WaitCheck(c) PROVE IrqInv'
    <2>1. TypeOK'
      <3>1. Sessions' = Sessions
        BY <1>7, SameSessions DEF WaitCheck, IrqInv, InFrame, InSession, Waiting
      <3>2. ref_count' = Cardinality(Sessions)' + orphans'
        BY <1>7, <1>s, <3>1 DEF WaitCheck
      <3>3. QED
        BY <1>7, <3>2 DEF WaitCheck, IrqInv, TypeOK, InFrame, InSession, Waiting, Sessions
    <2>2. HistoryOK'
      BY <1>7 DEF WaitCheck, IrqInv, TypeOK, HistoryOK, Storing
    <2>3. IsrShape' /\ FrameOwner' /\ EnabledUnanswered'
      BY <1>7 DEF WaitCheck, IrqInv, TypeOK, HistoryOK, IsrShape, FrameOwner,
         EnabledUnanswered, InFrame, InSession, Waiting
    <2>4. NoMissedWake'
      BY <1>7, <1>z DEF WaitCheck, IrqInv, TypeOK, IsrShape, NoMissedWake, Pending,
         InFrame, InSession, Waiting
    <2>5. SignalsExplained'
      BY <1>7, <1>z DEF WaitCheck, IrqInv, TypeOK, HistoryOK, IsrShape, FrameOwner,
         SignalsExplained, Explained, Pending, InFrame, InSession, Waiting
    <2>6. ValueFollows'
      BY <1>7, <1>z DEF WaitCheck, IrqInv, TypeOK, HistoryOK, IsrShape, FrameOwner,
         ValueFollows, ValueLeft, FlagLeft, Storing, InFrame, InSession, Waiting
    <2>7. QED
      BY <2>1, <2>2, <2>3, <2>4, <2>5, <2>6 DEF IrqInv
  <1>8. ASSUME NEW c \in Clients, WaitTest(c) PROVE IrqInv'
    <2>1. TypeOK'
      <3>1. Sessions' = Sessions
        BY <1>8, SameSessions DEF WaitTest, IrqInv, InFrame, InSession, Waiting
      <3>2. ref_count' = Cardinality(Sessions)' + orphans'
        BY <1>8, <1>s, <3>1 DEF WaitTest
      <3>3. QED
        BY <1>8, <3>2 DEF WaitTest, IrqInv, TypeOK, InFrame, InSession, Waiting, Sessions
    <2>2. HistoryOK'
      BY <1>8 DEF WaitTest, IrqInv, TypeOK, HistoryOK, Storing
    <2>3. IsrShape' /\ FrameOwner' /\ EnabledUnanswered'
      BY <1>8 DEF WaitTest, IrqInv, TypeOK, HistoryOK, IsrShape, FrameOwner,
         EnabledUnanswered, InFrame, InSession, Waiting
    <2>4. NoMissedWake'
      BY <1>8, <1>z DEF WaitTest, IrqInv, TypeOK, IsrShape, NoMissedWake, Pending,
         InFrame, InSession, Waiting
    <2>5. SignalsExplained'
      BY <1>8, <1>z DEF WaitTest, IrqInv, TypeOK, HistoryOK, IsrShape, FrameOwner,
         SignalsExplained, Explained, Pending, InFrame, InSession, Waiting
    <2>6. ValueFollows'
      BY <1>8, <1>z DEF WaitTest, IrqInv, TypeOK, HistoryOK, IsrShape, FrameOwner,
         ValueFollows, ValueLeft, FlagLeft, Storing, InFrame, InSession, Waiting
    <2>7. QED
      BY <2>1, <2>2, <2>3, <2>4, <2>5, <2>6 DEF IrqInv
  <1>9. ASSUME NEW c \in Clients, WaitTimeout(c) PROVE IrqInv'
    <2>1. TypeOK'
      <3>1. Sessions' = Sessions
        BY <1>9, SameSessions DEF WaitTimeout, IrqInv, InFrame, InSession, Waiting
      <3>2. ref_count' = Cardinality(Sessions)' + orphans'
        BY <1>9, <1>s, <3>1 DEF WaitTimeout
      <3>3. QED
        BY <1>9, <3>2 DEF WaitTimeout, IrqInv, TypeOK, InFrame, InSession, Waiting,
           Sessions
    <2>2. HistoryOK'
      BY <1>9 DEF WaitTimeout, IrqInv, TypeOK, HistoryOK, Storing
    <2>3. IsrShape' /\ FrameOwner' /\ EnabledUnanswered'
      BY <1>9 DEF WaitTimeout, IrqInv, TypeOK, HistoryOK, IsrShape, FrameOwner,
         EnabledUnanswered, InFrame, InSession, Waiting
    <2>4. NoMissedWake'
      BY <1>9, <1>z DEF WaitTimeout, IrqInv, TypeOK, IsrShape, NoMissedWake, Pending,
         InFrame, InSession, Waiting
    <2>5. SignalsExplained'
      BY <1>9, <1>z DEF WaitTimeout, IrqInv, TypeOK, HistoryOK, IsrShape, FrameOwner,
         SignalsExplained, Explained, Pending, InFrame, InSession, Waiting
    <2>6. ValueFollows'
      BY <1>9, <1>z DEF WaitTimeout, IrqInv, TypeOK, HistoryOK, IsrShape, FrameOwner,
         ValueFollows, ValueLeft, FlagLeft, Storing, InFrame, InSession, Waiting
    <2>7. QED
      BY <2>1, <2>2, <2>3, <2>4, <2>5, <2>6 DEF IrqInv
  <1>10. ASSUME NEW c \in Clients, WaitClear(c) PROVE IrqInv'
    <2>1. TypeOK'
      <3>1. Sessions' = Sessions
        BY <1>10, SameSessions DEF WaitClear, IrqInv, InFrame, InSession, Waiting
      <3>2. ref_count' = Cardinality(Sessions)' + orphans'
        BY <1>10, <1>s, <3>1 DEF WaitClear
      <3>3. QED
        BY <1>10, <3>2 DEF WaitClear, IrqInv, TypeOK, InFrame, InSession, Waiting,
           Sessions
    <2>2. HistoryOK'
      BY <1>10 DEF WaitClear, IrqInv, TypeOK, HistoryOK, Storing
    <2>3. IsrShape' /\ FrameOwner' /\ EnabledUnanswered'
      BY <1>10 DEF WaitClear, IrqInv, TypeOK, HistoryOK, IsrShape, FrameOwner,
         EnabledUnanswered, InFrame, InSession, Waiting
    <2>4. NoMissedWake'
      BY <1>10, <1>z DEF WaitClear, IrqInv, TypeOK, IsrShape, NoMissedWake, Pending,
         InFrame, InSession, Waiting
    <2>5. SignalsExplained'
      BY <1>10, <1>z DEF WaitClear, IrqInv, TypeOK, HistoryOK, IsrShape, FrameOwner,
         SignalsExplained, Explained, Pending, InFrame, InSession, Waiting
    <2>6. ValueFollows'
      BY <1>10, <1>z DEF WaitClear, IrqInv, TypeOK, HistoryOK, IsrShape, FrameOwner,
         ValueFollows, ValueLeft, FlagLeft, Storing, InFrame, InSession, Waiting
    <2>7. QED
      BY <2>1, <2>2, <2>3, <2>4, <2>5, <2>6 DEF IrqInv
  <1>11. ASSUME NEW c \in Clients, WaitReturn(c) PROVE IrqInv'
    <2>1. TypeOK'
      <3>1. Sessions' = Sessions
        BY <1>11, SameSessions DEF WaitReturn, IrqInv, InFrame, InSession, Waiting
      <3>2. ref_count' = Cardinality(Sessions)' + orphans'
        BY <1>11, <1>s, <3>1 DEF WaitReturn
      <3>3. QED
        BY <1>11, <3>2 DEF WaitReturn, IrqInv, TypeOK, InFrame, InSession, Waiting,
           Sessions
    <2>2. HistoryOK'
      BY <1>11 DEF WaitReturn, IrqInv, TypeOK, HistoryOK, Storing
    <2>3. IsrShape' /\ FrameOwner' /\ EnabledUnanswered'
      BY <1>11 DEF WaitReturn, IrqInv, TypeOK, HistoryOK, IsrShape, FrameOwner,
         EnabledUnanswered, InFrame, InSession, Waiting
    <2>4. NoMissedWake'
      BY <1>11, <1>z DEF WaitReturn, IrqInv, TypeOK, IsrShape, NoMissedWake, Pending,
         InFrame, InSession, Waiting
    <2>5. SignalsExplained'
      BY <1>11, <1>z DEF WaitReturn, IrqInv, TypeOK, HistoryOK, IsrShape, FrameOwner,
         SignalsExplained, Explained, Pending, InFrame, InSession, Waiting
    <2>6. ValueFollows'
      <3>1. ASSUME irq_value[eng[c]] = 0 PROVE timedout[c] \/ raced'[c]
        <4>1. timedout[c] \/ raced[c] \/ Storing(eng[c])
          BY <1>11, <3>1, LeftIsStoring DEF WaitReturn, IrqInv, ValueFollows
        <4>2. raced'[c] = (raced[c] \/ Storing(eng[c]))
          BY <1>11 DEF WaitReturn, IrqInv, HistoryOK
        <4>3. QED
          BY <4>1, <4>2
      <3>2. ASSUME NEW u \in Clients \ {c}
            PROVE pc'[u] = pc[u] /\ res'[u] = res[u] /\ raced'[u] = raced[u]
        BY <1>11 DEF WaitReturn, IrqInv, TypeOK, HistoryOK
      <3>3. pc'[c] = "got" /\ res'[c] = irq_value[eng[c]]
        BY <1>11 DEF WaitReturn, IrqInv, TypeOK
      <3>4. UNCHANGED <<irq_flag, irq_value, eng, timedout, isr>>
        BY <1>11 DEF WaitReturn
      <3>5. QED
        BY <3>1, <3>2, <3>3, <3>4 DEF IrqInv, ValueFollows, ValueLeft, FlagLeft
    <2>7. QED
      BY <2>1, <2>2, <2>3, <2>4, <2>5, <2>6 DEF IrqInv
  <1>12. ASSUME NEW c \in Clients, Finish(c) PROVE IrqInv'
    <2>1. TypeOK'
      <3>1. Sessions' = Sessions
        BY <1>12, SameSessions DEF Finish, IrqInv, InFrame, InSession, Waiting
      <3>2. ref_count' = Cardinality(Sessions)' + orphans'
        BY <1>12, <1>s, <3>1 DEF Finish
      <3>3. QED
        BY <1>12, <3>2 DEF Finish, Forget, IrqInv, TypeOK, InFrame, InSession, Waiting,
           Sessions
    <2>2. HistoryOK'
      BY <1>12 DEF Finish, Forget, IrqInv, TypeOK, HistoryOK, Storing
    <2>3. IsrShape' /\ FrameOwner' /\ EnabledUnanswered'
      BY <1>12 DEF Finish, Forget, IrqInv, TypeOK, HistoryOK, IsrShape, FrameOwner,
         EnabledUnanswered, InFrame, InSession, Waiting
    <2>4. NoMissedWake'
      BY <1>12, <1>z DEF Finish, Forget, IrqInv, TypeOK, IsrShape, NoMissedWake, Pending,
         InFrame, InSession, Waiting
    <2>5. SignalsExplained'
      BY <1>12, <1>z DEF Finish, Forget, IrqInv, TypeOK, HistoryOK, IsrShape, FrameOwner,
         SignalsExplained, Explained, Pending, InFrame, InSession, Waiting
    <2>6. ValueFollows'
      BY <1>12, <1>z DEF Finish, Forget, IrqInv, TypeOK, HistoryOK, IsrShape, FrameOwner,
         ValueFollows, ValueLeft, FlagLeft, Storing, InFrame, InSession, Waiting
    <2>7. QED
      BY <2>1, <2>2, <2>3, <2>4, <2>5, <2>6 DEF IrqInv
  <1>13. ASSUME NEW e \in Engines, HwDone(e) PROVE IrqInv'
    <2>1. TypeOK'
      <3>1. Sessions' = Sessions
        BY <1>13 DEF HwDone, IrqInv, TypeOK, Sessions, InFrame, InSession, Waiting
      <3>2. ref_count' = Cardinality(Sessions)' + orphans'
        BY <1>13, <1>s, <3>1 DEF HwDone
      <3>3. QED
        BY <1>13, <3>2 DEF HwDone, NextSource, NoIsr, Raised, IrqInv, TypeOK, InFrame,
           InSession, Waiting, Sessions
    <2>2. HistoryOK'
      BY <1>13 DEF HwDone, NextSource, NoIsr, Raised, IrqInv, TypeOK, HistoryOK, Storing
    <2>3. IsrShape' /\ FrameOwner' /\ EnabledUnanswered'
      BY <1>13 DEF HwDone, NextSource, NoIsr, Raised, IrqInv, TypeOK, HistoryOK, IsrShape,
         FrameOwner, EnabledUnanswered, InFrame, InSession, Waiting
    <2>4. NoMissedWake'
      BY <1>13, <1>z DEF HwDone, NextSource, NoIsr, Raised, IrqInv, TypeOK, IsrShape,
         NoMissedWake, Pending, InFrame, InSession, Waiting
    <2>5. SignalsExplained'
      BY <1>13, <1>z DEF HwDone, NextSource, NoIsr, Raised, IrqInv, TypeOK, HistoryOK,
         IsrShape, FrameOwner, SignalsExplained, Explained, Pending, InFrame, InSession,
         Waiting
    <2>6. ValueFollows'
      BY <1>13, <1>z DEF HwDone, NextSource, NoIsr, Raised, IrqInv, TypeOK, HistoryOK,
         IsrShape, FrameOwner, ValueFollows, ValueLeft, FlagLeft, Storing, InFrame,
         InSession, Waiting
    <2>7. QED
      BY <2>1, <2>2, <2>3, <2>4, <2>5, <2>6 DEF IrqInv
  <1>14. ASSUME IsrEnter PROVE IrqInv'
    <2>1. TypeOK'
      <3>1. Sessions' = Sessions
        BY <1>14 DEF IsrEnter, IrqInv, TypeOK, Sessions, InFrame, InSession, Waiting
      <3>2. ref_count' = Cardinality(Sessions)' + orphans'
        BY <1>14, <1>s, <3>1 DEF IsrEnter
      <3>3. isr' \in IsrRecords
        <4>1. isr' = [at |-> 1, hit |-> FALSE, todo |-> {}]
          BY <1>14 DEF IsrEnter, NoIsr
        <4>2. QED
          BY <4>1 DEF IsrRecords
      <3>4. QED
        BY <1>14, <3>2, <3>3 DEF IsrEnter, IrqInv, TypeOK, IsrRecords, InFrame, InSession, Waiting, Sessions
    <2>2. HistoryOK'
      BY <1>14 DEF IsrEnter, NextSource, NoIsr, Raised, IrqInv, TypeOK, HistoryOK, Storing
    <2>3. IsrShape' /\ FrameOwner' /\ EnabledUnanswered'
      BY <1>14 DEF IsrEnter, NextSource, NoIsr, Raised, IrqInv, TypeOK, HistoryOK,
         IsrShape, FrameOwner, EnabledUnanswered, InFrame, InSession, Waiting
    <2>4. NoMissedWake'
      BY <1>14, <1>z DEF IsrEnter, NextSource, NoIsr, Raised, IrqInv, TypeOK, IsrShape,
         NoMissedWake, Pending, InFrame, InSession, Waiting
    <2>5. SignalsExplained'
      BY <1>14, <1>z DEF IsrEnter, NextSource, NoIsr, Raised, IrqInv, TypeOK, HistoryOK,
         IsrShape, FrameOwner, SignalsExplained, Explained, Pending, InFrame, InSession,
         Waiting
    <2>6. ValueFollows'
      BY <1>14, <1>z DEF IsrEnter, NextSource, NoIsr, Raised, IrqInv, TypeOK, HistoryOK,
         IsrShape, FrameOwner, ValueFollows, ValueLeft, FlagLeft, Storing, InFrame,
         InSession, Waiting
    <2>7. QED
      BY <2>1, <2>2, <2>3, <2>4, <2>5, <2>6 DEF IrqInv
  <1>15. ASSUME IsrSkip PROVE IrqInv'
    <2>1. TypeOK'
      <3>1. Sessions' = Sessions
        BY <1>15 DEF IsrSkip, IrqInv, TypeOK, Sessions, InFrame, InSession, Waiting
      <3>2. ref_count' = Cardinality(Sessions)' + orphans'
        BY <1>15, <1>s, <3>1 DEF IsrSkip
      <3>3. isr' \in IsrRecords
        BY <1>15, NextSourceShape DEF IsrSkip, IrqInv, IsrShape
      <3>4. QED
        BY <1>15, <3>2, <3>3 DEF IsrSkip, IrqInv, TypeOK, IsrRecords, InFrame, InSession, Waiting, Sessions
    <2>2. HistoryOK'
      BY <1>15 DEF IsrSkip, NextSource, NoIsr, Raised, IrqInv, TypeOK, HistoryOK, Storing
    <2>3. IsrShape' /\ FrameOwner' /\ EnabledUnanswered'
      BY <1>15 DEF IsrSkip, NextSource, NoIsr, Raised, IrqInv, TypeOK, HistoryOK,
         IsrShape, FrameOwner, EnabledUnanswered, InFrame, InSession, Waiting
    <2>4. NoMissedWake'
      BY <1>15, <1>z DEF IsrSkip, NextSource, NoIsr, Raised, IrqInv, TypeOK, IsrShape,
         NoMissedWake, Pending, InFrame, InSession, Waiting
    <2>5. SignalsExplained'
      BY <1>15, <1>z DEF IsrSkip, NextSource, NoIsr, Raised, IrqInv, TypeOK, HistoryOK,
         IsrShape, FrameOwner, SignalsExplained, Explained, Pending, InFrame, InSession,
         Waiting
    <2>6. ValueFollows'
      <3>1. isr.todo = {} /\ isr'.todo \in {{}, {"value", "flag"}}
        BY <1>15, NextSourceShape DEF IsrSkip, IrqInv, TypeOK, IsrShape
      <3>2. \A e \in Engines : /\ ~ValueLeft(e) /\ ~FlagLeft(e)
                              /\ ~ValueLeft(e)' /\ ~FlagLeft(e)'
        BY <3>1, TodoSets DEF ValueLeft, FlagLeft
      <3>3. QED
        BY <1>15, <3>2 DEF IsrSkip, IrqInv, TypeOK, ValueFollows
    <2>7. QED
      BY <2>1, <2>2, <2>3, <2>4, <2>5, <2>6 DEF IrqInv
  <1>16. ASSUME IsrMask PROVE IrqInv'
    <2>1. TypeOK'
      <3>1. Sessions' = Sessions
        BY <1>16 DEF IsrMask, IrqInv, TypeOK, Sessions, InFrame, InSession, Waiting
      <3>2. ref_count' = Cardinality(Sessions)' + orphans'
        BY <1>16, <1>s, <3>1 DEF IsrMask
      <3>3. QED
        BY <1>16, <3>2 DEF IsrMask, NextSource, NoIsr, Raised, IrqInv, TypeOK, InFrame,
           InSession, Waiting, Sessions
    <2>2. HistoryOK'
      BY <1>16 DEF IsrMask, NextSource, NoIsr, Raised, IrqInv, TypeOK, HistoryOK, Storing
    <2>3. IsrShape' /\ FrameOwner' /\ EnabledUnanswered'
      BY <1>16 DEF IsrMask, NextSource, NoIsr, Raised, IrqInv, TypeOK, HistoryOK,
         IsrShape, FrameOwner, EnabledUnanswered, InFrame, InSession, Waiting
    <2>4. NoMissedWake'
      BY <1>16, <1>z DEF IsrMask, NextSource, NoIsr, Raised, IrqInv, TypeOK, IsrShape,
         NoMissedWake, Pending, InFrame, InSession, Waiting
    <2>5. SignalsExplained'
      BY <1>16, <1>z DEF IsrMask, NextSource, NoIsr, Raised, IrqInv, TypeOK, HistoryOK,
         IsrShape, FrameOwner, SignalsExplained, Explained, Pending, InFrame, InSession,
         Waiting
    <2>6. ValueFollows'
      <3>1. isr.todo = {} /\ isr'.todo \in {{}, {"value", "flag"}}
        BY <1>16, NextSourceShape DEF IsrMask, IrqInv, TypeOK, IsrShape
      <3>2. \A e \in Engines : /\ ~ValueLeft(e) /\ ~FlagLeft(e)
                              /\ ~ValueLeft(e)' /\ ~FlagLeft(e)'
        BY <3>1, TodoSets DEF ValueLeft, FlagLeft
      <3>3. QED
        BY <1>16, <3>2 DEF IsrMask, IrqInv, TypeOK, ValueFollows
    <2>7. QED
      BY <2>1, <2>2, <2>3, <2>4, <2>5, <2>6 DEF IrqInv
  <1>17. ASSUME NEW w \in {"flag", "value"}, IsrStore(w) PROVE IrqInv'
    <2>1. TypeOK'
      <3>1. Sessions' = Sessions
        BY <1>17 DEF IsrStore, IrqInv, TypeOK, Sessions, InFrame, InSession, Waiting
      <3>2. ref_count' = Cardinality(Sessions)' + orphans'
        BY <1>17, <1>s, <3>1 DEF IsrStore
      <3>3. QED
        BY <1>17, <3>2 DEF IsrStore, NextSource, NoIsr, Raised, IrqInv, TypeOK, InFrame,
           InSession, Waiting, Sessions
    <2>2. HistoryOK'
      BY <1>17 DEF IsrStore, NextSource, NoIsr, Raised, IrqInv, TypeOK, HistoryOK, Storing
    <2>3. IsrShape' /\ FrameOwner' /\ EnabledUnanswered'
      BY <1>17 DEF IsrStore, NextSource, NoIsr, Raised, IrqInv, TypeOK, HistoryOK,
         IsrShape, FrameOwner, EnabledUnanswered, InFrame, InSession, Waiting
    <2>4. NoMissedWake'
      BY <1>17, <1>z DEF IsrStore, NextSource, NoIsr, Raised, IrqInv, TypeOK, IsrShape,
         NoMissedWake, Pending, InFrame, InSession, Waiting
    <2>5. SignalsExplained'
      BY <1>17, <1>z DEF IsrStore, NextSource, NoIsr, Raised, IrqInv, TypeOK, HistoryOK,
         IsrShape, FrameOwner, SignalsExplained, Explained, Pending, InFrame, InSession,
         Waiting
    <2>6. ValueFollows'
      BY <1>17, <1>z DEF IsrStore, NextSource, NoIsr, Raised, IrqInv, TypeOK, HistoryOK,
         IsrShape, FrameOwner, ValueFollows, ValueLeft, FlagLeft, Storing, InFrame,
         InSession, Waiting
    <2>7. QED
      BY <2>1, <2>2, <2>3, <2>4, <2>5, <2>6 DEF IrqInv
  <1>18. ASSUME IsrWake PROVE IrqInv'
    <2>1. TypeOK'
      <3>1. Sessions' = Sessions
        BY <1>18 DEF IsrWake, IrqInv, TypeOK, Sessions, InFrame, InSession, Waiting
      <3>2. ref_count' = Cardinality(Sessions)' + orphans'
        BY <1>18, <1>s, <3>1 DEF IsrWake
      <3>3. isr' \in IsrRecords
        BY <1>18, NextSourceShape DEF IsrWake, IrqInv, IsrShape
      <3>4. QED
        BY <1>18, <3>2, <3>3 DEF IsrWake, IrqInv, TypeOK, IsrRecords, InFrame, InSession, Waiting, Sessions
    <2>2. HistoryOK'
      BY <1>18 DEF IsrWake, NextSource, NoIsr, Raised, IrqInv, TypeOK, HistoryOK, Storing
    <2>3. IsrShape' /\ FrameOwner' /\ EnabledUnanswered'
      BY <1>18 DEF IsrWake, NextSource, NoIsr, Raised, IrqInv, TypeOK, HistoryOK,
         IsrShape, FrameOwner, EnabledUnanswered, InFrame, InSession, Waiting
    <2>4. NoMissedWake'
      BY <1>18, <1>z DEF IsrWake, NextSource, NoIsr, Raised, IrqInv, TypeOK, IsrShape,
         NoMissedWake, Pending, InFrame, InSession, Waiting
    <2>5. SignalsExplained'
      BY <1>18, <1>z DEF IsrWake, NextSource, NoIsr, Raised, IrqInv, TypeOK, HistoryOK,
         IsrShape, FrameOwner, SignalsExplained, Explained, Pending, InFrame, InSession,
         Waiting
    <2>6. ValueFollows'
      BY <1>18, <1>z DEF IsrWake, NextSource, NoIsr, Raised, IrqInv, TypeOK, HistoryOK,
         IsrShape, FrameOwner, ValueFollows, ValueLeft, FlagLeft, Storing, InFrame,
         InSession, Waiting
    <2>7. QED
      BY <2>1, <2>2, <2>3, <2>4, <2>5, <2>6 DEF IrqInv
  <1>19. CASE UNCHANGED vars
    BY <1>19 DEF vars, IrqInv, TypeOK, HistoryOK, IsrShape, FrameOwner, EnabledUnanswered,
       NoMissedWake, SignalsExplained, Explained, Pending, ValueFollows, ValueLeft,
       FlagLeft
  <1>20. QED
    BY <1>1, <1>2, <1>3, <1>4, <1>5, <1>6, <1>7, <1>8, <1>9, <1>10, <1>11, <1>12, <1>13,
       <1>14, <1>15, <1>16, <1>17, <1>18, <1>19 DEF Next, Wait, Handler

LEMMA IrqInvariant == Spec => []IrqInv
  BY IrqInit, IrqNext, PTL DEF Spec

\* Type correctness, for every number of clients and sources; in particular
\* ref_count always counts the sessions, those of dead clients included.
THEOREM IrqTypeCorrect == Spec => []TypeOK
  <1>1. IrqInv => TypeOK
    BY DEF IrqInv
  <1>2. QED
    BY IrqInvariant, <1>1, PTL

\* No waiter of WAIT_VE_DE, WAIT_VE_EN or WAIT_JPEG_DEC sleeps while its flag
\* is set, unless VideoEngineInterupt is about to wake it.
THEOREM NeverMissesWake == Spec => []NoMissedWake
  <1>1. IrqInv => NoMissedWake
    BY DEF IrqInv
  <1>2. QED
    BY IrqInvariant, <1>1, PTL

\* A WAIT that reports a completion had its interrupt, or found a flag that was
\* set, or about to be set, when its frame was started.
THEOREM CompletionsExplained == Spec => []OneIsExplained
  <1>1. IrqInv => OneIsExplained
    BY DEF IrqInv, SignalsExplained, Explained, OneIsExplained
  <1>2. QED
    BY IrqInvariant, <1>1, PTL

\* A WAIT that reports no completion timed out, or accessed the value between
\* the two stores of the handler.
THEOREM TimeoutsExplained == Spec => []ZeroIsExplained
  <1>1. IrqInv => ZeroIsExplained
    BY DEF IrqInv, ValueFollows, ZeroIsExplained
  <1>2. QED
    BY IrqInvariant, <1>1, PTL

\* The handler answers a start at most once: it masks the source it answers,
\* and only the next start enables it again.
THEOREM AnswersOnce == Spec => OneAnswerPerStart
  <1>1. IrqInv /\ [Next]_vars => [isr'.hit /\ ~isr.hit => ~fresh[IsrOrder[isr.at]]]_vars
    <2>1. SUFFICES ASSUME IrqInv, Next, isr'.hit, ~isr.hit PROVE ~fresh[IsrOrder[isr.at]]
      OBVIOUS
    <2>2. isr' # isr
      BY <2>1
    <2>3. CASE IsrMask
      BY <2>1, <2>3, EnginesAt, IrqAssumption
         DEF IsrMask, Raised, IrqInv, TypeOK, EnabledUnanswered
    <2>4. CASE IsrEnter \/ IsrSkip \/ (\E w \in {"flag", "value"} : IsrStore(w)) \/ IsrWake
      BY <2>1, <2>4, IrqAssumption
         DEF IsrEnter, IsrSkip, IsrStore, IsrWake, NextSource, NoIsr, IrqInv, TypeOK
    <2>5. QED
      BY <2>1, <2>2, <2>3, <2>4
         DEF Next, Open, Release, EngineReq, EngineRel, Start, Wait, WaitZero, WaitCheck,
             WaitTest, WaitClear, WaitReturn, WaitTimeout, Finish, HwDone, Handler
  <1>2. QED
    BY IrqInvariant, <1>1, PTL DEF Spec, OneAnswerPerStart
============================================================================
