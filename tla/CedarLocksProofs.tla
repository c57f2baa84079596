-------------------------- MODULE CedarLocksProofs --------------------------
(***************************************************************************)
(* Proofs about CedarLocks, for every set of threads, files, hardware      *)
(* locks and debug channels.  The inductive invariant says, for each point *)
(* of the ioctls, which mutexes a thread owns and which of them lock_flags *)
(* already (or still) name.                                                *)
(***************************************************************************)
EXTENDS CedarLocks, TLAPS

\* Past mutex_lock and not yet returned: the wanted mutex is owned, too.
Got == {"get_io", "get_or", "get_ret", "set_copy", "set_io", "set_or", "set_fin"}
\* Inside a call that gives a mutex back.
Giving == {"rel_io", "rel_and", "rel_unlock", "copy_io", "copy_and", "copy_fin"}
\* Between the load and the store of lock_flags.
InIo == {"get_or", "rel_and", "set_or", "copy_and"}
Points == {"user", "get_mutex", "set_mutex"} \cup Got \cup Giving

\* The mutexes a thread owns, and those of them it has entered in lock_flags.
Holding(t) == holds[t] \cup (IF pc[t] \in Got THEN want[t] ELSE {})
Flagged(t) ==
    CASE pc[t] \in {"get_ret", "set_fin"} -> holds[t] \cup want[t]
      [] pc[t] \in {"rel_unlock", "copy_fin"} -> holds[t] \ want[t]
      [] OTHER -> holds[t]

\* The values of the variables, with the points of the ioctls written out.
Types ==
    /\ pc \in [Threads -> Points]
    /\ want \in [Threads -> SUBSET Mutexes]
    /\ tmp \in [Threads -> SUBSET Mutexes]
    /\ holds \in [Threads -> SUBSET Mutexes]
    /\ file \in [Files -> {"open", "dying", "closed"}]
    /\ mutex \in [Mutexes -> Threads \cup {NoOne}]
    /\ io \in [Files -> Threads \cup {NoOne}]
    /\ flags \in [Files -> SUBSET Mutexes]
    /\ channel \in Channels
    /\ buf \subseteq Channels

\* A call wants one mutex: a hardware lock, or lock_proc for the proc ioctls.
WantOne ==
    \A t \in Threads :
      /\ pc[t] = "user" => want[t] = {}
      /\ pc[t] \in {"get_mutex", "get_io", "get_or", "get_ret", "rel_io", "rel_and", "rel_unlock"}
           => \E l \in Locks : want[t] = {l}
      /\ pc[t] \in {"set_mutex", "set_copy", "set_io", "set_or", "set_fin",
                    "copy_io", "copy_and", "copy_fin"} => want[t] = {Proc}

\* A call that takes a mutex did not have it, one that gives it back has it.
TakesNew == \A t \in Threads : pc[t] \in Got => want[t] \cap holds[t] = {}
GivesOwn == \A t \in Threads : pc[t] \in Giving => want[t] \subseteq holds[t]

\* The owner of a mutex is the thread that holds it.
OwnerHolds == \A t \in Threads, m \in Mutexes : mutex[m] = t <=> m \in Holding(t)

\* lock_flag_io is held between the load and the store, so the loaded value is
\* still the current one when the new one is stored.
IoHeld ==
    \A t \in Threads : pc[t] \in InIo => io[FileOf[t]] = t /\ tmp[t] = flags[FileOf[t]]

\* lock_flags are what the threads of the file have entered.
FlagsExact ==
    \A f \in Files, m \in Mutexes : m \in flags[f] <=> \E t \in Members(f) : m \in Flagged(t)

\* Nobody is inside a call on a closed file, or has kept anything from it.
ClosedQuiet ==
    \A t \in Threads : file[FileOf[t]] = "closed" => pc[t] = "user" /\ holds[t] = {}

LocksInv ==
    /\ Types /\ WantOne /\ TakesNew /\ GivesOwn /\ OwnerHolds /\ IoHeld
    /\ FlagsExact /\ ClosedQuiet

LEMMA UpdatePoints ==
    /\ DOMAIN Updating = {"get_io", "rel_io", "set_io", "copy_io"}
    /\ DOMAIN Updated = InIo
    /\ Updating["get_io"] = "get_or" /\ Updating["rel_io"] = "rel_and"
    /\ Updating["set_io"] = "set_or" /\ Updating["copy_io"] = "copy_and"
    /\ Updated["get_or"] = "get_ret" /\ Updated["rel_and"] = "rel_unlock"
    /\ Updated["set_or"] = "set_fin" /\ Updated["copy_and"] = "copy_fin"
  BY DEF Updating, Updated, InIo

LEMMA LocksInit == Init => LocksInv
  BY LocksAssumption DEF Init, LocksInv, Types, WantOne, TakesNew, GivesOwn, OwnerHolds, IoHeld,
     FlagsExact, ClosedQuiet, Holding, Flagged, Members, Mutexes, Points, Got, Giving, InIo

\* No thread can have a mutex another thread has.
LEMMA OneHolder ==
    ASSUME LocksInv, NEW t \in Threads, NEW u \in Threads, NEW m \in Mutexes,
           m \in Holding(t), m \in Holding(u)
    PROVE  t = u
  BY DEF LocksInv, OwnerHolds

\* What a thread has entered in lock_flags it owns.
LEMMA FlaggedIsHeld ==
    ASSUME LocksInv, NEW t \in Threads PROVE Flagged(t) \subseteq Holding(t)
  BY DEF LocksInv, Types, Flagged, Holding, Got, Giving

\* lock_flags stay exact when neither they nor what the threads have entered
\* changes.
LEMMA FlagsFrame ==
    ASSUME FlagsExact, flags' = flags, \A u \in Threads : Flagged(u)' = Flagged(u)
    PROVE  FlagsExact'
  BY DEF FlagsExact, Members

LEMMA LocksNext == LocksInv /\ [Next]_vars => LocksInv'
  <1> SUFFICES ASSUME LocksInv, [Next]_vars PROVE LocksInv'
    OBVIOUS
  <1> USE LocksAssumption
      DEF Goto, Call, Return, Lock, Unlock, flagVars, procVars
  <1>1. ASSUME NEW t \in Threads, NEW l \in Locks, GetCall(t, l) PROVE LocksInv'
    <2>1. Types'
      BY <1>1 DEF GetCall, LocksInv, Types, WantOne, Mutexes, Points, Got, Giving, InIo
    <2>2. WantOne' /\ TakesNew' /\ GivesOwn'
      BY <1>1 DEF GetCall, LocksInv, Types, WantOne, TakesNew, GivesOwn, OwnerHolds,
         Holding, Mutexes, Points, Got, Giving, InIo
    <2>3. OwnerHolds'
      BY <1>1 DEF GetCall, LocksInv, Types, WantOne, TakesNew, GivesOwn, OwnerHolds,
         Holding, Mutexes, Points, Got, Giving, InIo
    <2>4. IoHeld'
      BY <1>1 DEF GetCall, LocksInv, Types, IoHeld, Points, Got, Giving, InIo
    <2>5. FlagsExact'
      <3>1. flags' = flags /\ \A u \in Threads : Flagged(u)' = Flagged(u)
        BY <1>1 DEF GetCall, LocksInv, Types, Flagged, Points, Got, Giving, InIo
      <3>2. QED
        BY <3>1, FlagsFrame DEF LocksInv
    <2>6. ClosedQuiet'
      BY <1>1 DEF GetCall, LocksInv, Types, ClosedQuiet, Points, Got, Giving, InIo
    <2>7. QED
      BY <2>1, <2>2, <2>3, <2>4, <2>5, <2>6 DEF LocksInv
  <1>2. ASSUME NEW t \in Threads, NEW l \in Locks, RelCall(t, l) PROVE LocksInv'
    <2>1. Types'
      BY <1>2 DEF RelCall, LocksInv, Types, WantOne, Mutexes, Points, Got, Giving, InIo
    <2>2. WantOne' /\ TakesNew' /\ GivesOwn'
      BY <1>2 DEF RelCall, LocksInv, Types, WantOne, TakesNew, GivesOwn, OwnerHolds,
         Holding, Mutexes, Points, Got, Giving, InIo
    <2>3. OwnerHolds'
      BY <1>2 DEF RelCall, LocksInv, Types, WantOne, TakesNew, GivesOwn, OwnerHolds,
         Holding, Mutexes, Points, Got, Giving, InIo
    <2>4. IoHeld'
      BY <1>2 DEF RelCall, LocksInv, Types, IoHeld, Points, Got, Giving, InIo
    <2>5. FlagsExact'
      <3>1. flags' = flags /\ \A u \in Threads : Flagged(u)' = Flagged(u)
        BY <1>2 DEF RelCall, LocksInv, Types, Flagged, Points, Got, Giving, InIo
      <3>2. QED
        BY <3>1, FlagsFrame DEF LocksInv
    <2>6. ClosedQuiet'
      BY <1>2 DEF RelCall, LocksInv, Types, ClosedQuiet, Points, Got, Giving, InIo
    <2>7. QED
      BY <2>1, <2>2, <2>3, <2>4, <2>5, <2>6 DEF LocksInv
  <1>3. ASSUME NEW t \in Threads, GetMutex(t) PROVE LocksInv'
    <2>1. Types'
      BY <1>3 DEF GetMutex, LocksInv, Types, WantOne, Mutexes, Points, Got, Giving, InIo
    <2>2. WantOne' /\ TakesNew' /\ GivesOwn'
      BY <1>3 DEF GetMutex, LocksInv, Types, WantOne, TakesNew, GivesOwn, OwnerHolds,
         Holding, Mutexes, Points, Got, Giving, InIo
    <2>3. OwnerHolds'
      BY <1>3 DEF GetMutex, LocksInv, Types, WantOne, TakesNew, GivesOwn, OwnerHolds,
         Holding, Mutexes, Points, Got, Giving, InIo
    <2>4. IoHeld'
      BY <1>3 DEF GetMutex, LocksInv, Types, IoHeld, Points, Got, Giving, InIo
    <2>5. FlagsExact'
      <3>1. flags' = flags /\ \A u \in Threads : Flagged(u)' = Flagged(u)
        BY <1>3 DEF GetMutex, LocksInv, Types, Flagged, Points, Got, Giving, InIo
      <3>2. QED
        BY <3>1, FlagsFrame DEF LocksInv
    <2>6. ClosedQuiet'
      BY <1>3 DEF GetMutex, LocksInv, Types, ClosedQuiet, Points, Got, Giving, InIo
    <2>7. QED
      BY <2>1, <2>2, <2>3, <2>4, <2>5, <2>6 DEF LocksInv
  <1>4. ASSUME NEW t \in Threads, SetMutex(t) PROVE LocksInv'
    <2>1. Types'
      BY <1>4 DEF SetMutex, LocksInv, Types, WantOne, Mutexes, Points, Got, Giving, InIo
    <2>2. WantOne' /\ TakesNew' /\ GivesOwn'
      BY <1>4 DEF SetMutex, LocksInv, Types, WantOne, TakesNew, GivesOwn, OwnerHolds,
         Holding, Mutexes, Points, Got, Giving, InIo
    <2>3. OwnerHolds'
      BY <1>4 DEF SetMutex, LocksInv, Types, WantOne, TakesNew, GivesOwn, OwnerHolds,
         Holding, Mutexes, Points, Got, Giving, InIo
    <2>4. IoHeld'
      BY <1>4 DEF SetMutex, LocksInv, Types, IoHeld, Points, Got, Giving, InIo
    <2>5. FlagsExact'
      <3>1. flags' = flags /\ \A u \in Threads : Flagged(u)' = Flagged(u)
        BY <1>4 DEF SetMutex, LocksInv, Types, Flagged, Points, Got, Giving, InIo
      <3>2. QED
        BY <3>1, FlagsFrame DEF LocksInv
    <2>6. ClosedQuiet'
      BY <1>4 DEF SetMutex, LocksInv, Types, ClosedQuiet, Points, Got, Giving, InIo
    <2>7. QED
      BY <2>1, <2>2, <2>3, <2>4, <2>5, <2>6 DEF LocksInv
  <1>5. ASSUME NEW t \in Threads, FlagsLoad(t) PROVE LocksInv'
    <2>1. Types'
      BY <1>5, UpdatePoints DEF FlagsLoad, LocksInv, Types, WantOne, Mutexes, Points, Got,
         Giving, InIo
    <2>2. WantOne' /\ TakesNew' /\ GivesOwn'
      BY <1>5, UpdatePoints DEF FlagsLoad, LocksInv, Types, WantOne, TakesNew, GivesOwn,
         OwnerHolds, Holding, Mutexes, Points, Got, Giving, InIo
    <2>3. OwnerHolds'
      BY <1>5, UpdatePoints DEF FlagsLoad, LocksInv, Types, WantOne, TakesNew, GivesOwn,
         OwnerHolds, Holding, Mutexes, Points, Got, Giving, InIo
    <2>4. IoHeld'
      BY <1>5, UpdatePoints DEF FlagsLoad, LocksInv, Types, IoHeld, Points, Got, Giving,
         InIo
    <2>5. FlagsExact'
      <3>1. flags' = flags /\ \A u \in Threads : Flagged(u)' = Flagged(u)
        BY <1>5, UpdatePoints DEF FlagsLoad, LocksInv, Types, Flagged, Points, Got, Giving,
           InIo
      <3>2. QED
        BY <3>1, FlagsFrame DEF LocksInv
    <2>6. ClosedQuiet'
      BY <1>5, UpdatePoints DEF FlagsLoad, LocksInv, Types, ClosedQuiet, Points, Got,
         Giving, InIo
    <2>7. QED
      BY <2>1, <2>2, <2>3, <2>4, <2>5, <2>6 DEF LocksInv
  <1>6. ASSUME NEW t \in Threads, FlagsStore(t) PROVE LocksInv'
    <2>1. Types'
      BY <1>6, UpdatePoints DEF FlagsStore, LocksInv, Types, WantOne, Mutexes, Points, Got,
         Giving, InIo
    <2>2. WantOne' /\ TakesNew' /\ GivesOwn'
      BY <1>6, UpdatePoints DEF FlagsStore, LocksInv, Types, WantOne, TakesNew, GivesOwn,
         OwnerHolds, Holding, Mutexes, Points, Got, Giving, InIo
    <2>3. OwnerHolds'
      BY <1>6, UpdatePoints DEF FlagsStore, LocksInv, Types, WantOne, TakesNew, GivesOwn,
         OwnerHolds, Holding, Mutexes, Points, Got, Giving, InIo
    <2>4. IoHeld'
      BY <1>6, UpdatePoints DEF FlagsStore, LocksInv, Types, IoHeld, Points, Got, Giving,
         InIo
    <2>5. FlagsExact'
      <3>1. \A u \in Threads \ {t} : Flagged(u)' = Flagged(u)
        BY <1>6, UpdatePoints DEF FlagsStore, LocksInv, Types, Flagged, Points, Got,
           Giving, InIo
      <3>2. \A f \in Files \ {FileOf[t]} : flags'[f] = flags[f]
        BY <1>6 DEF FlagsStore, LocksInv, Types
      <3>3. CASE pc[t] \in {"get_or", "set_or"}
        <4>1. flags'[FileOf[t]] = flags[FileOf[t]] \cup want[t]
          BY <1>6, <3>3 DEF FlagsStore, LocksInv, Types, IoHeld, InIo
        <4>2. Flagged(t)' = Flagged(t) \cup want[t]
          BY <1>6, <3>3, UpdatePoints DEF FlagsStore, LocksInv, Types, Flagged
        <4>3. QED
          BY <3>1, <3>2, <4>1, <4>2 DEF LocksInv, FlagsExact, Members
      <3>4. CASE pc[t] \in {"rel_and", "copy_and"}
        <4>1. flags'[FileOf[t]] = flags[FileOf[t]] \ want[t]
          BY <1>6, <3>4 DEF FlagsStore, LocksInv, Types, IoHeld, InIo
        <4>2. Flagged(t)' = Flagged(t) \ want[t]
          BY <1>6, <3>4, UpdatePoints DEF FlagsStore, LocksInv, Types, Flagged
        <4>3. \A m \in want[t], u \in Threads : m \in Flagged(u) => u = t
          <5>1. want[t] \subseteq Holding(t) /\ want[t] \subseteq Mutexes
            BY <3>4 DEF LocksInv, Types, GivesOwn, Giving, Holding
          <5>2. QED
            BY <5>1, FlaggedIsHeld, OneHolder
        <4>4. QED
          BY <3>1, <3>2, <4>1, <4>2, <4>3 DEF LocksInv, FlagsExact, Members
      <3>5. QED
        BY <1>6, <3>3, <3>4, UpdatePoints DEF FlagsStore, InIo
    <2>6. ClosedQuiet'
      BY <1>6, UpdatePoints DEF FlagsStore, LocksInv, Types, ClosedQuiet, Points, Got,
         Giving, InIo
    <2>7. QED
      BY <2>1, <2>2, <2>3, <2>4, <2>5, <2>6 DEF LocksInv
  <1>7. ASSUME NEW t \in Threads, GetReturn(t) PROVE LocksInv'
    <2>1. Types'
      BY <1>7 DEF GetReturn, LocksInv, Types, WantOne, Mutexes, Points, Got, Giving, InIo
    <2>2. WantOne' /\ TakesNew' /\ GivesOwn'
      BY <1>7 DEF GetReturn, LocksInv, Types, WantOne, TakesNew, GivesOwn, OwnerHolds,
         Holding, Mutexes, Points, Got, Giving, InIo
    <2>3. OwnerHolds'
      BY <1>7 DEF GetReturn, LocksInv, Types, WantOne, TakesNew, GivesOwn, OwnerHolds,
         Holding, Mutexes, Points, Got, Giving, InIo
    <2>4. IoHeld'
      BY <1>7 DEF GetReturn, LocksInv, Types, IoHeld, Points, Got, Giving, InIo
    <2>5. FlagsExact'
      <3>1. flags' = flags /\ \A u \in Threads : Flagged(u)' = Flagged(u)
        BY <1>7 DEF GetReturn, LocksInv, Types, Flagged, Points, Got, Giving, InIo
      <3>2. QED
        BY <3>1, FlagsFrame DEF LocksInv
    <2>6. ClosedQuiet'
      BY <1>7 DEF GetReturn, LocksInv, Types, ClosedQuiet, Points, Got, Giving, InIo
    <2>7. QED
      BY <2>1, <2>2, <2>3, <2>4, <2>5, <2>6 DEF LocksInv
  <1>8. ASSUME NEW t \in Threads, RelUnlock(t) PROVE LocksInv'
    <2>1. Types'
      BY <1>8 DEF RelUnlock, LocksInv, Types, WantOne, Mutexes, Points, Got, Giving, InIo
    <2>2. WantOne' /\ TakesNew' /\ GivesOwn'
      BY <1>8 DEF RelUnlock, LocksInv, Types, WantOne, TakesNew, GivesOwn, OwnerHolds,
         Holding, Mutexes, Points, Got, Giving, InIo
    <2>3. OwnerHolds'
      BY <1>8 DEF RelUnlock, LocksInv, Types, WantOne, TakesNew, GivesOwn, OwnerHolds,
         Holding, Mutexes, Points, Got, Giving, InIo
    <2>4. IoHeld'
      BY <1>8 DEF RelUnlock, LocksInv, Types, IoHeld, Points, Got, Giving, InIo
    <2>5. FlagsExact'
      <3>1. flags' = flags /\ \A u \in Threads : Flagged(u)' = Flagged(u)
        BY <1>8 DEF RelUnlock, LocksInv, Types, Flagged, Points, Got, Giving, InIo
      <3>2. QED
        BY <3>1, FlagsFrame DEF LocksInv
    <2>6. ClosedQuiet'
      BY <1>8 DEF RelUnlock, LocksInv, Types, ClosedQuiet, Points, Got, Giving, InIo
    <2>7. QED
      BY <2>1, <2>2, <2>3, <2>4, <2>5, <2>6 DEF LocksInv
  <1>9. ASSUME NEW t \in Threads, SetFails(t) PROVE LocksInv'
    <2>1. Types'
      BY <1>9 DEF SetFails, LocksInv, Types, WantOne, Mutexes, Points, Got, Giving, InIo
    <2>2. WantOne' /\ TakesNew' /\ GivesOwn'
      BY <1>9 DEF SetFails, LocksInv, Types, WantOne, TakesNew, GivesOwn, OwnerHolds,
         Holding, Mutexes, Points, Got, Giving, InIo
    <2>3. OwnerHolds'
      BY <1>9 DEF SetFails, LocksInv, Types, WantOne, TakesNew, GivesOwn, OwnerHolds,
         Holding, Mutexes, Points, Got, Giving, InIo
    <2>4. IoHeld'
      BY <1>9 DEF SetFails, LocksInv, Types, IoHeld, Points, Got, Giving, InIo
    <2>5. FlagsExact'
      <3>1. flags' = flags /\ \A u \in Threads : Flagged(u)' = Flagged(u)
        BY <1>9 DEF SetFails, LocksInv, Types, Flagged, Points, Got, Giving, InIo
      <3>2. QED
        BY <3>1, FlagsFrame DEF LocksInv
    <2>6. ClosedQuiet'
      BY <1>9 DEF SetFails, LocksInv, Types, ClosedQuiet, Points, Got, Giving, InIo
    <2>7. QED
      BY <2>1, <2>2, <2>3, <2>4, <2>5, <2>6 DEF LocksInv
  <1>10. ASSUME NEW t \in Threads, SetCopied(t) PROVE LocksInv'
    <2>1. Types'
      BY <1>10 DEF SetCopied, LocksInv, Types, WantOne, Mutexes, Points, Got, Giving, InIo
    <2>2. WantOne' /\ TakesNew' /\ GivesOwn'
      BY <1>10 DEF SetCopied, LocksInv, Types, WantOne, TakesNew, GivesOwn, OwnerHolds,
         Holding, Mutexes, Points, Got, Giving, InIo
    <2>3. OwnerHolds'
      BY <1>10 DEF SetCopied, LocksInv, Types, WantOne, TakesNew, GivesOwn, OwnerHolds,
         Holding, Mutexes, Points, Got, Giving, InIo
    <2>4. IoHeld'
      BY <1>10 DEF SetCopied, LocksInv, Types, IoHeld, Points, Got, Giving, InIo
    <2>5. FlagsExact'
      <3>1. flags' = flags /\ \A u \in Threads : Flagged(u)' = Flagged(u)
        BY <1>10 DEF SetCopied, LocksInv, Types, Flagged, Points, Got, Giving, InIo
      <3>2. QED
        BY <3>1, FlagsFrame DEF LocksInv
    <2>6. ClosedQuiet'
      BY <1>10 DEF SetCopied, LocksInv, Types, ClosedQuiet, Points, Got, Giving, InIo
    <2>7. QED
      BY <2>1, <2>2, <2>3, <2>4, <2>5, <2>6 DEF LocksInv
  <1>11. ASSUME NEW t \in Threads, SetFinish(t) PROVE LocksInv'
    <2>1. Types'
      BY <1>11 DEF SetFinish, LocksInv, Types, WantOne, Mutexes, Points, Got, Giving, InIo
    <2>2. WantOne' /\ TakesNew' /\ GivesOwn'
      BY <1>11 DEF SetFinish, LocksInv, Types, WantOne, TakesNew, GivesOwn, OwnerHolds,
         Holding, Mutexes, Points, Got, Giving, InIo
    <2>3. OwnerHolds'
      BY <1>11 DEF SetFinish, LocksInv, Types, WantOne, TakesNew, GivesOwn, OwnerHolds,
         Holding, Mutexes, Points, Got, Giving, InIo
    <2>4. IoHeld'
      BY <1>11 DEF SetFinish, LocksInv, Types, IoHeld, Points, Got, Giving, InIo
    <2>5. FlagsExact'
      <3>1. flags' = flags /\ \A u \in Threads : Flagged(u)' = Flagged(u)
        BY <1>11 DEF SetFinish, WantOne, LocksInv, Types, Flagged, Points, Got, Giving,
           InIo
      <3>2. QED
        BY <3>1, FlagsFrame DEF LocksInv
    <2>6. ClosedQuiet'
      BY <1>11 DEF SetFinish, LocksInv, Types, ClosedQuiet, Points, Got, Giving, InIo
    <2>7. QED
      BY <2>1, <2>2, <2>3, <2>4, <2>5, <2>6 DEF LocksInv
  <1>12. ASSUME NEW t \in Threads, CopyFinish(t) PROVE LocksInv'
    <2>1. Types'
      BY <1>12 DEF CopyFinish, LocksInv, Types, WantOne, Mutexes, Points, Got, Giving, InIo
    <2>2. WantOne' /\ TakesNew' /\ GivesOwn'
      BY <1>12 DEF CopyFinish, LocksInv, Types, WantOne, TakesNew, GivesOwn, OwnerHolds,
         Holding, Mutexes, Points, Got, Giving, InIo
    <2>3. OwnerHolds'
      BY <1>12 DEF CopyFinish, LocksInv, Types, WantOne, TakesNew, GivesOwn, OwnerHolds,
         Holding, Mutexes, Points, Got, Giving, InIo
    <2>4. IoHeld'
      BY <1>12 DEF CopyFinish, LocksInv, Types, IoHeld, Points, Got, Giving, InIo
    <2>5. FlagsExact'
      <3>1. flags' = flags /\ \A u \in Threads : Flagged(u)' = Flagged(u)
        BY <1>12 DEF CopyFinish, WantOne, LocksInv, Types, Flagged, Points, Got, Giving,
           InIo
      <3>2. QED
        BY <3>1, FlagsFrame DEF LocksInv
    <2>6. ClosedQuiet'
      BY <1>12 DEF CopyFinish, LocksInv, Types, ClosedQuiet, Points, Got, Giving, InIo
    <2>7. QED
      BY <2>1, <2>2, <2>3, <2>4, <2>5, <2>6 DEF LocksInv
  <1>13. ASSUME NEW t \in Threads, SetCall(t) PROVE LocksInv'
    <2>1. Types'
      BY <1>13 DEF SetCall, LocksInv, Types, WantOne, Mutexes, Points, Got, Giving, InIo
    <2>2. WantOne' /\ TakesNew' /\ GivesOwn'
      BY <1>13 DEF SetCall, LocksInv, Types, WantOne, TakesNew, GivesOwn, OwnerHolds,
         Holding, Mutexes, Points, Got, Giving, InIo
    <2>3. OwnerHolds'
      BY <1>13 DEF SetCall, LocksInv, Types, WantOne, TakesNew, GivesOwn, OwnerHolds,
         Holding, Mutexes, Points, Got, Giving, InIo
    <2>4. IoHeld'
      BY <1>13 DEF SetCall, LocksInv, Types, IoHeld, Points, Got, Giving, InIo
    <2>5. FlagsExact'
      <3>1. flags' = flags /\ \A u \in Threads : Flagged(u)' = Flagged(u)
        BY <1>13 DEF SetCall, LocksInv, Types, Flagged, Points, Got, Giving, InIo
      <3>2. QED
        BY <3>1, FlagsFrame DEF LocksInv
    <2>6. ClosedQuiet'
      BY <1>13 DEF SetCall, LocksInv, Types, ClosedQuiet, Points, Got, Giving, InIo
    <2>7. QED
      BY <2>1, <2>2, <2>3, <2>4, <2>5, <2>6 DEF LocksInv
  <1>14. ASSUME NEW t \in Threads, CopyCall(t) PROVE LocksInv'
    <2>1. Types'
      BY <1>14 DEF CopyCall, LocksInv, Types, WantOne, Mutexes, Points, Got, Giving, InIo
    <2>2. WantOne' /\ TakesNew' /\ GivesOwn'
      BY <1>14 DEF CopyCall, LocksInv, Types, WantOne, TakesNew, GivesOwn, OwnerHolds,
         Holding, Mutexes, Points, Got, Giving, InIo
    <2>3. OwnerHolds'
      BY <1>14 DEF CopyCall, LocksInv, Types, WantOne, TakesNew, GivesOwn, OwnerHolds,
         Holding, Mutexes, Points, Got, Giving, InIo
    <2>4. IoHeld'
      BY <1>14 DEF CopyCall, LocksInv, Types, IoHeld, Points, Got, Giving, InIo
    <2>5. FlagsExact'
      <3>1. flags' = flags /\ \A u \in Threads : Flagged(u)' = Flagged(u)
        BY <1>14 DEF CopyCall, LocksInv, Types, Flagged, Points, Got, Giving, InIo
      <3>2. QED
        BY <3>1, FlagsFrame DEF LocksInv
    <2>6. ClosedQuiet'
      BY <1>14 DEF CopyCall, LocksInv, Types, ClosedQuiet, Points, Got, Giving, InIo
    <2>7. QED
      BY <2>1, <2>2, <2>3, <2>4, <2>5, <2>6 DEF LocksInv
  <1>15. ASSUME NEW t \in Threads, StopProcInfo(t) PROVE LocksInv'
    <2>1. Types'
      BY <1>15 DEF StopProcInfo, LocksInv, Types, WantOne, Mutexes, Points, Got, Giving,
         InIo
    <2>2. WantOne' /\ TakesNew' /\ GivesOwn'
      BY <1>15 DEF StopProcInfo, LocksInv, Types, WantOne, TakesNew, GivesOwn, OwnerHolds,
         Holding, Mutexes, Points, Got, Giving, InIo
    <2>3. OwnerHolds'
      BY <1>15 DEF StopProcInfo, LocksInv, Types, WantOne, TakesNew, GivesOwn, OwnerHolds,
         Holding, Mutexes, Points, Got, Giving, InIo
    <2>4. IoHeld'
      BY <1>15 DEF StopProcInfo, LocksInv, Types, IoHeld, Points, Got, Giving, InIo
    <2>5. FlagsExact'
      <3>1. flags' = flags /\ \A u \in Threads : Flagged(u)' = Flagged(u)
        BY <1>15 DEF StopProcInfo, LocksInv, Types, Flagged, Points, Got, Giving, InIo
      <3>2. QED
        BY <3>1, FlagsFrame DEF LocksInv
    <2>6. ClosedQuiet'
      BY <1>15 DEF StopProcInfo, LocksInv, Types, ClosedQuiet, Points, Got, Giving, InIo
    <2>7. QED
      BY <2>1, <2>2, <2>3, <2>4, <2>5, <2>6 DEF LocksInv
  <1>16. ASSUME NEW f \in Files, Open(f) PROVE LocksInv'
    <2>1. Types'
      BY <1>16 DEF Open, LocksInv, Types, WantOne, Mutexes, Points, Got, Giving, InIo
    <2>2. WantOne' /\ TakesNew' /\ GivesOwn'
      BY <1>16 DEF Open, LocksInv, Types, WantOne, TakesNew, GivesOwn, OwnerHolds, Holding,
         Mutexes, Points, Got, Giving, InIo
    <2>3. OwnerHolds'
      BY <1>16 DEF Open, LocksInv, Types, WantOne, TakesNew, GivesOwn, OwnerHolds, Holding,
         Mutexes, Points, Got, Giving, InIo
    <2>4. IoHeld'
      BY <1>16 DEF Open, LocksInv, Types, IoHeld, ClosedQuiet, InIo
    <2>5. FlagsExact'
      <3>1. flags[f] = {} /\ flags'[f] = {}
        BY <1>16 DEF Open, LocksInv, Types, FlagsExact, ClosedQuiet, Members, Flagged
      <3>2. flags' = flags /\ \A u \in Threads : Flagged(u)' = Flagged(u)
        BY <1>16, <3>1 DEF Open, LocksInv, Types, Flagged
      <3>3. QED
        BY <3>2, FlagsFrame DEF LocksInv
    <2>6. ClosedQuiet'
      BY <1>16 DEF Open, LocksInv, Types, ClosedQuiet, Points, Got, Giving, InIo
    <2>7. QED
      BY <2>1, <2>2, <2>3, <2>4, <2>5, <2>6 DEF LocksInv
  <1>17. ASSUME NEW f \in Files, Kill(f) PROVE LocksInv'
    <2>1. Types'
      BY <1>17 DEF Kill, LocksInv, Types, WantOne, Mutexes, Points, Got, Giving, InIo
    <2>2. WantOne' /\ TakesNew' /\ GivesOwn'
      BY <1>17 DEF Kill, LocksInv, Types, WantOne, TakesNew, GivesOwn, OwnerHolds, Holding,
         Mutexes, Points, Got, Giving, InIo
    <2>3. OwnerHolds'
      BY <1>17 DEF Kill, LocksInv, Types, WantOne, TakesNew, GivesOwn, OwnerHolds, Holding,
         Mutexes, Points, Got, Giving, InIo
    <2>4. IoHeld'
      BY <1>17 DEF Kill, LocksInv, Types, IoHeld, Points, Got, Giving, InIo
    <2>5. FlagsExact'
      <3>1. flags' = flags /\ \A u \in Threads : Flagged(u)' = Flagged(u)
        BY <1>17 DEF Kill, LocksInv, Types, Flagged, Points, Got, Giving, InIo
      <3>2. QED
        BY <3>1, FlagsFrame DEF LocksInv
    <2>6. ClosedQuiet'
      BY <1>17 DEF Kill, LocksInv, Types, ClosedQuiet, Points, Got, Giving, InIo
    <2>7. QED
      BY <2>1, <2>2, <2>3, <2>4, <2>5, <2>6 DEF LocksInv
  <1>18. ASSUME NEW f \in Files, Release(f) PROVE LocksInv'
    <2>1. Types'
      BY <1>18 DEF Release, AtRest, Members, LocksInv, Types, WantOne, Mutexes, Points,
         Got, Giving, InIo
    <2>2. WantOne' /\ TakesNew' /\ GivesOwn'
      BY <1>18 DEF Release, AtRest, Members, LocksInv, Types, WantOne, TakesNew, GivesOwn,
         OwnerHolds, Holding, Mutexes, Points, Got, Giving, InIo
    <2>3. OwnerHolds'
      <3>1. \A t \in Threads : Holding(t)' = IF t \in Members(f) THEN {} ELSE Holding(t)
        BY <1>18 DEF Release, Members, AtRest, Holding, LocksInv, Types, Got
      <3>2. \A t \in Members(f) : Flagged(t) = Holding(t)
        BY <1>18 DEF Release, Members, AtRest, Holding, Flagged, LocksInv, Types, Got
      <3>3. \A m \in Mutexes : m \in flags[f] <=> \E t \in Members(f) : m \in Holding(t)
        BY <3>2 DEF LocksInv, FlagsExact
      <3>4. \A m \in Mutexes : mutex'[m] = IF m \in flags[f] THEN NoOne ELSE mutex[m]
        BY <1>18 DEF Release
      <3>5. QED
        BY <3>1, <3>3, <3>4 DEF LocksInv, OwnerHolds, Members
    <2>4. IoHeld'
      BY <1>18 DEF Release, AtRest, Members, LocksInv, Types, IoHeld, Points, Got, Giving,
         InIo
    <2>5. FlagsExact'
      <3>1. \A t \in Threads : Flagged(t)' = IF t \in Members(f) THEN {} ELSE Flagged(t)
        BY <1>18 DEF Release, LocksInv, Types, Members, AtRest, Flagged
      <3>2. \A g \in Files : flags'[g] = IF g = f THEN {} ELSE flags[g]
        BY <1>18 DEF Release, LocksInv, Types
      <3>3. QED
        BY <3>1, <3>2 DEF LocksInv, FlagsExact, Members
    <2>6. ClosedQuiet'
      BY <1>18 DEF Release, AtRest, Members, LocksInv, Types, ClosedQuiet, Points, Got,
         Giving, InIo
    <2>7. QED
      BY <2>1, <2>2, <2>3, <2>4, <2>5, <2>6 DEF LocksInv
  <1>19. CASE UNCHANGED vars
    BY <1>19 DEF vars, LocksInv, Types, WantOne, TakesNew, GivesOwn, OwnerHolds, IoHeld,
       FlagsExact, ClosedQuiet, Holding, Flagged, Members
  <1>20. QED
    BY <1>1, <1>2, <1>3, <1>4, <1>5, <1>6, <1>7, <1>8, <1>9, <1>10, <1>11, <1>12,
       <1>13, <1>14, <1>15, <1>16, <1>17, <1>18, <1>19 DEF Next, Acquire, Inside

LEMMA LocksInvariant == Spec => []LocksInv
  BY LocksInit, LocksNext, PTL DEF Spec

\* Type correctness, for every set of threads, files and locks.
THEOREM LocksTypeCorrect == Spec => []TypeOK
  <1>1. LocksInv => TypeOK
    BY UpdatePoints DEF LocksInv, Types, TypeOK, Points, Got, Giving, InIo
  <1>2. QED
    BY LocksInvariant, <1>1, PTL

\* A thread that got a lock owns it until it gives it back, whatever the other
\* threads, the error paths and the deaths of other processes do
\* (IOCTL_GET_LOCK, IOCTL_RELEASE_LOCK, cedardev_release).
THEOREM HolderKeepsLock == Spec => []HolderOwns
  <1>1. LocksInv => HolderOwns
    BY DEF LocksInv, Types, OwnerHolds, Holding, HolderOwns
  <1>2. QED
    BY LocksInvariant, <1>1, PTL

\* However many threads share a file, lock_flags name exactly the mutexes the
\* file owns once its calls have returned, so that cedardev_release unlocks
\* those and no other; and IOCTL_GET_LOCK never finds the flag of the mutex it
\* has just locked set already.
THEOREM FlagsAreMutexes == Spec => []FlagsMatchMutexes
  <1>1. ASSUME LocksInv PROVE FlagsMatchMutexes
    <2>1. ASSUME NEW f \in Files, AtRest(f) PROVE flags[f] = Owned(f)
      <3>1. \A t \in Members(f) : Flagged(t) = holds[t] /\ Holding(t) = holds[t]
        BY <1>1, <2>1 DEF AtRest, Members, Flagged, Holding, Got
      <3>2. \A m \in Mutexes : m \in flags[f] <=> \E t \in Members(f) : mutex[m] = t
        BY <1>1, <3>1 DEF LocksInv, FlagsExact, OwnerHolds, Members
      <3>3. flags[f] \subseteq Mutexes
        BY <1>1 DEF LocksInv, Types
      <3>4. QED
        BY <3>2, <3>3 DEF Owned
    <2>2. ASSUME NEW t \in Threads, pc[t] = "get_io" PROVE want[t] \cap flags[FileOf[t]] = {}
      <3>1. SUFFICES ASSUME NEW m \in want[t], m \in flags[FileOf[t]] PROVE FALSE
        OBVIOUS
      <3>2. m \in Mutexes /\ FileOf[t] \in Files /\ m \in Holding(t)
        BY <1>1, <2>2, <3>1, LocksAssumption DEF LocksInv, Types, Holding, Got
      <3>3. PICK u \in Members(FileOf[t]) : m \in Flagged(u)
        BY <1>1, <3>1, <3>2 DEF LocksInv, FlagsExact
      <3>4. u = t
        BY <1>1, <3>2, <3>3, FlaggedIsHeld, OneHolder DEF Members
      <3>5. m \in holds[t]
        BY <2>2, <3>3, <3>4 DEF Flagged
      <3>6. QED
        BY <1>1, <2>2, <3>1, <3>5 DEF LocksInv, TakesNew, Got
    <2>3. QED
      BY <2>1, <2>2 DEF FlagsMatchMutexes
  <1>2. QED
    BY LocksInvariant, <1>1, PTL

\* Wherever the process of a file died, the closed file owns no mutex: the
\* lock_flags that cedardev_release reads missed nothing.
THEOREM ClosedFilesOwnNothing == Spec => []ClosedOwnsNothing
  <1>1. LocksInv => ClosedOwnsNothing
    BY DEF LocksInv, OwnerHolds, ClosedQuiet, ClosedOwnsNothing, Owned, Members, Holding, Got
  <1>2. QED
    BY LocksInvariant, <1>1, PTL

----------------------------------------------------------------------------
(* The debug channel between SET_PROC_INFO and COPY_PROC_INFO.  User space *)
(* chooses the channel; two threads that choose the same one share its     *)
(* buffer, and either may stop it.                                         *)

\* Every thread reports on a channel of its own.
OwnChannels == \A t, u \in Threads : ChannelOf[t] = ChannelOf[u] => t = u

LEMMA CopyNext ==
    ASSUME OwnChannels, LocksInv, CopyGoesToOwnChannel, [Next]_vars
    PROVE  CopyGoesToOwnChannel'
  <1> USE LocksAssumption
      DEF CopyGoesToOwnChannel, Goto, Call, Return, Lock, Unlock, flagVars, procVars
  <1>h. holds \in [Threads -> SUBSET Mutexes]
    BY DEF LocksInv, Types
  <1>1. ASSUME NEW t \in Threads, NEW l \in Locks, GetCall(t, l) \/ RelCall(t, l)
        PROVE  CopyGoesToOwnChannel'
    BY <1>1 DEF GetCall, RelCall
  <1>2. ASSUME NEW t \in Threads, Acquire(t) \/ FlagsLoad(t) \/ FlagsStore(t) \/ SetFails(t)
                                 \/ SetCopied(t) \/ SetCall(t) \/ CopyCall(t)
        PROVE  CopyGoesToOwnChannel'
    BY <1>2, <1>h DEF Acquire, GetMutex, SetMutex, FlagsLoad, FlagsStore, SetFails, SetCopied,
                SetCall, CopyCall
  <1>3. ASSUME NEW t \in Threads, GetReturn(t) \/ RelUnlock(t) \/ CopyFinish(t)
        PROVE  CopyGoesToOwnChannel'
    <2>1. pc[t] = "get_ret" => Proc \notin want[t]
      BY DEF LocksInv, WantOne
    <2>2. QED
      BY <1>3, <1>h, <2>1 DEF GetReturn, RelUnlock, CopyFinish
  <1>4. ASSUME NEW t \in Threads, SetFinish(t) PROVE CopyGoesToOwnChannel'
    <2>1. Proc \in Holding(t) /\ Proc \in Mutexes
      BY <1>4 DEF SetFinish, LocksInv, WantOne, Holding, Got, Mutexes
    <2>2. \A u \in Threads : Proc \in holds[u] => u = t
      BY <2>1, OneHolder DEF Holding
    <2>3. QED
      BY <1>4, <1>h, <2>2 DEF SetFinish
  <1>5. ASSUME NEW t \in Threads, StopProcInfo(t) PROVE CopyGoesToOwnChannel'
    BY <1>5 DEF StopProcInfo, OwnChannels
  <1>6. ASSUME NEW f \in Files, Open(f) \/ Kill(f) \/ Release(f) PROVE CopyGoesToOwnChannel'
    BY <1>6 DEF Open, Kill, Release, Members
  <1>7. CASE UNCHANGED vars
    BY <1>7 DEF vars
  <1>8. QED
    BY <1>1, <1>2, <1>3, <1>4, <1>5, <1>6, <1>7 DEF Next, Inside

\* When every thread reports on its own channel, the record a thread copies
\* between IOCTL_SET_PROC_INFO and IOCTL_COPY_PROC_INFO goes to that channel
\* and its buffer is there: lock_proc keeps cur_channel_id from changing.
THEOREM CopyReachesOwnChannel ==
    ASSUME OwnChannels PROVE Spec => []CopyGoesToOwnChannel
  <1>1. Init => CopyGoesToOwnChannel
    BY DEF Init, CopyGoesToOwnChannel
  <1>2. LocksInv /\ CopyGoesToOwnChannel /\ [Next]_vars => CopyGoesToOwnChannel'
    BY CopyNext
  <1>3. QED
    BY <1>1, <1>2, LocksInvariant, PTL DEF Spec
============================================================================
