----------------------------- MODULE AccountProofs -----------------------------
(* Proofs about Account, for any users, passwords, threads, delays, faults and *)
(* crashes.                                                                    *)
EXTENDS Account, TLAPS

(* --------------------------------- Types --------------------------------- *)

\* What the program points say of the locals: which job gets there, and which of the
\* credentials it read are there.
LocalOK(l) ==
    /\ l.pc \in {"auth", "reserve", "lock", "check", "success"} => l.job \in {"verify", "update"}
    /\ l.pc = "migrate" => l.job = "verify"
    /\ l.pc = "move" => l.job \in {"update", "change"}
    /\ l.pc = "write" => l.job \in {"update", "change", "provision"}
    /\ l.pc \in {"publish", "publishing", "restore", "republish", "republishing"} => l.job = "update"
    /\ l.pc = "moveback" => l.job \in {"update", "change"}
    /\ l.pc \in {"setaside", "unlink", "rmtree"} => l.job = "remove"
    /\ l.pc = "idle" <=> l.job = "none"
    /\ l.pc \in {"reserve", "lock", "check", "success", "migrate", "publishing", "republishing"} => l.seen # None
    /\ l.job \in {"update", "change", "remove"} => l.old # None
    /\ l.job \in {"update", "change", "provision"} => l.want \in Wish
    /\ l.job = "provision" => l.want.pw # None
    /\ l.moved => l.job \in {"update", "change"}

TypeInv == TypeOK /\ \A a \in Actors : LocalOK(th[a])

\* An idle actor has locals of the right type and none that a program point relies on.
LEMMA IdleOK == Idle \in Local /\ LocalOK(Idle)
BY DEF Idle, Local, LocalOK, PCs, Jobs

\* An actor that takes new locals in order keeps the threads in order.
LEMMA ThreadStep ==
    ASSUME TypeInv, NEW a \in Actors, NEW l \in Local, LocalOK(l), th' = [th EXCEPT ![a] = l]
    PROVE  th' \in [Actors -> Local] /\ \A b \in Actors : LocalOK(th'[b])
BY DEF TypeInv, TypeOK

\* Ending a request keeps the types of the locals.
LEMMA FinishStep ==
    ASSUME TypeInv, NEW a \in Actors, Finish(a)
    PROVE  th' \in [Actors -> Local] /\ \A b \in Actors : LocalOK(th'[b])
BY ThreadStep, IdleOK DEF Finish

\* Going on to another program point keeps the types of the locals.
LEMMA GotoStep ==
    ASSUME TypeInv, NEW a \in Actors, NEW pc \in PCs, LocalOK([th[a] EXCEPT !.pc = pc]), Goto(a, pc)
    PROVE  th' \in [Actors -> Local] /\ \A b \in Actors : LocalOK(th'[b])
<1> DEFINE l == [th[a] EXCEPT !.pc = pc]
<1>1. l \in Local
  BY DEF TypeInv, TypeOK, Local
<1>2. th' = [th EXCEPT ![a] = l]
  BY DEF Goto
<1> QED BY <1>1, <1>2, ThreadStep

\* The bounded counters stay within their bounds.
LEMMA CountTypes ==
    ASSUME TypeInv
    PROVE  /\ Fault => faults' \in 0 .. MaxFaults /\ UNCHANGED <<requests, crashes>>
           /\ \A a, l : Begin(a, l) => requests' \in 0 .. MaxRequests /\ UNCHANGED <<faults, crashes>>
           /\ UNCHANGED counts => requests' \in 0 .. MaxRequests /\ faults' \in 0 .. MaxFaults /\
                crashes' \in 0 .. MaxCrashes
<1>1. MaxFaults \in Nat /\ MaxRequests \in Nat
  BY AccountAssumption
<1>2. requests \in 0 .. MaxRequests /\ faults \in 0 .. MaxFaults /\ crashes \in 0 .. MaxCrashes
  BY DEF TypeInv, TypeOK
<1> QED BY <1>1, <1>2 DEF Fault, Begin, Weight, counts

\* A directory of homes stays one, synced or not.
LEMMA DiskType ==
    ASSUME TypeInv, NEW h \in Homes, Synced(h) \/ Cached(h)
    PROVE  home' \in drive' /\ drive' \subseteq Homes
BY DEF TypeInv, TypeOK, Synced, Cached

\* A delay is a number.
LEMMA DelayType == \A n \in 1 .. MaxCount : Delay(n) \in Int
<1>1. MaxCount \in Nat /\ MaxDelay \in Nat
  BY AccountAssumption
<1>2. \A m \in Nat : 2 ^ m \in Int
  BY Z3
<1> QED BY <1>1, <1>2 DEF Delay

\* The limiter's counter stays at its cap.
LEMMA CountedType == \A n \in Nat \ {0} : Counted(n) \in 1 .. MaxCount
BY AccountAssumption DEF Counted

\* An update and a change write a credential.
LEMMA ReplacementType ==
    ASSUME TypeInv, NEW a \in Actors, th[a].job \in {"update", "change"}
    PROVE  Replacement(a) \in Credential
<1>1. th[a] \in Local /\ LocalOK(th[a])
  BY DEF TypeInv, TypeOK
<1>2. th[a].old \in Credential /\ th[a].want \in Wish
  BY <1>1 DEF Local, LocalOK
<1> QED BY <1>2 DEF Replacement, Credential, Wish

\* Writing a credential, with or without a fault, keeps the types.
LEMMA WriteType ==
    ASSUME TypeInv, NEW c \in Credential, NEW ok \in BOOLEAN, WriteCredential(c, ok)
    PROVE  /\ cred' \in Credential \cup {None}
           /\ requests' \in 0 .. MaxRequests /\ faults' \in 0 .. MaxFaults /\ crashes' \in 0 .. MaxCrashes
BY CountTypes DEF WriteCredential, TypeInv, TypeOK

\* The first states have the right types.
LEMMA TypeInit == Init => TypeInv
<1> SUFFICES ASSUME Init PROVE TypeInv
  OBVIOUS
<1>1. th \in [Actors -> Local] /\ \A a \in Actors : LocalOK(th[a])
  BY IdleOK DEF Init
<1>2. 0 \in 0 .. MaxTime /\ 0 \in 0 .. MaxRequests /\ 0 \in 0 .. MaxFaults /\ 0 \in 0 .. MaxCrashes
  BY AccountAssumption
<1>3. /\ entries \in [Keys -> Entry \cup {None}]
      /\ tries \in [Keys -> [n : Nat, last : Nat]]
  BY DEF Init, NoTries
<1>4. /\ cred \in Credential \cup {None} /\ session \in Users \cup {None} /\ used \in BOOLEAN
      /\ home \in Homes /\ drive = {home}
  <2>1. CASE cred = None /\ session = None /\ home = [v \in Names |-> "none"] /\ used = FALSE
    BY <2>1 DEF Init, Homes
  <2>2. ASSUME NEW u \in Users, NEW p \in Passwords,
               cred = [user |-> u, pw |-> p, old |-> TRUE], session = u, used = TRUE,
               home = [v \in Names |-> IF v = u THEN "files" ELSE "none"]
        PROVE /\ cred \in Credential \cup {None} /\ session \in Users \cup {None} /\ used \in BOOLEAN
              /\ home \in Homes /\ drive = {home}
    BY <2>2 DEF Init, Credential, Homes
  <2> QED BY <2>1, <2>2 DEF Init
<1> QED BY <1>1, <1>2, <1>3, <1>4 DEF Init, TypeInv, TypeOK

\* A thread in the limiter has a key.
LEMMA KeyType ==
    ASSUME TypeInv, NEW t \in Threads, th[t].pc \in {"lock", "success"}
    PROVE  Key(t) \in Keys
<1>1. th[t] \in Local /\ LocalOK(th[t])
  BY DEF TypeInv, TypeOK, Actors
<1> QED BY <1>1 DEF Key, Local, LocalOK, Credential, Scope, Keys, Scopes

\* Counting an attempt keeps the types of the limiter.
LEMMA CountType ==
    ASSUME TypeInv, NEW t \in Threads, th[t].pc = "lock", Count(t)
    PROVE  entries' \in [Keys -> Entry \cup {None}] /\ tries' \in [Keys -> [n : Nat, last : Nat]]
<1> DEFINE k == Key(t)
           r == th[t].clock
           before == IF entries[k] = None THEN 0 ELSE entries[k].failures
           n == Counted(before + 1)
<1>1. k \in Keys
  BY KeyType
<1>2. r \in Nat
  BY DEF TypeInv, TypeOK, Actors, Local
<1>3. entries \in [Keys -> Entry \cup {None}] /\ tries \in [Keys -> [n : Nat, last : Nat]]
  BY DEF TypeInv, TypeOK
<1>4. before \in Nat
  BY <1>1, <1>3, AccountAssumption DEF Entry
<1>5. n \in 1 .. MaxCount /\ Delay(n) \in Int
  BY <1>4, CountedType, DelayType
<1>6. [failures |-> n, until |-> r + Delay(n), last |-> r] \in Entry
  <2> HIDE DEF n, r
  <2> QED BY <1>2, <1>5 DEF Entry
<1>7. [n |-> tries[k].n + 1, last |-> r] \in [n : Nat, last : Nat] /\ NoTries \in [n : Nat, last : Nat]
  BY <1>1, <1>2, <1>3 DEF NoTries
<1>8. PICK stale \in SUBSET Keys :
        /\ entries' = [q \in Keys |->
              IF q = k THEN [failures |-> n, until |-> r + Delay(n), last |-> r]
              ELSE IF q \in stale THEN None ELSE entries[q]]
        /\ tries' = [q \in Keys |->
              IF q = k THEN [n |-> tries[k].n + 1, last |-> r]
              ELSE IF q \in stale THEN NoTries ELSE tries[q]]
  BY Zenon DEF Count
<1> HIDE DEF n, k, r
<1>9. entries' \in [Keys -> Entry \cup {None}]
  BY <1>3, <1>6, <1>8
<1>10. tries' \in [Keys -> [n : Nat, last : Nat]]
  BY <1>3, <1>7, <1>8
<1> QED BY <1>9, <1>10

\* So does dropping an entry.
LEMMA DropType ==
    ASSUME TypeInv, NEW t \in Threads, Drop(t)
    PROVE  entries' \in [Keys -> Entry \cup {None}] /\ tries' \in [Keys -> [n : Nat, last : Nat]]
BY DEF Drop, TypeInv, TypeOK, NoTries

\* The steps of authenticate_master keep the types.
LEMMA TypeAuth ==
    ASSUME TypeInv, NEW t \in Threads,
           \/ AuthRead(t) \/ ReadClock(t) \/ Reserve(t) \/ ReserveFails(t) \/ Check(t)
           \/ Success(t) \/ SuccessFails(t)
           \/ (\E ok \in BOOLEAN : Migrate(t, ok))
           \/ (\E p \in Passwords : Verify(t, p))
    PROVE  TypeInv'
<1>0. t \in Actors /\ th[t] \in Local /\ LocalOK(th[t])
  BY DEF TypeInv, TypeOK, Actors
<1>1. CASE AuthRead(t)
  <2>1. CASE cred = None
    <3>1. th' \in [Actors -> Local] /\ \A b \in Actors : LocalOK(th'[b])
      BY <1>0, <1>1, <2>1, FinishStep DEF AuthRead
    <3> QED BY <1>1, <3>1 DEF AuthRead, TypeInv, TypeOK, account, limiter, counts, history, disk
  <2>2. CASE cred # None
    <3> DEFINE l == [th[t] EXCEPT !.seen = cred, !.pc = "reserve"]
    <3>1. l \in Local /\ LocalOK(l)
      BY <1>0, <1>1, <2>2 DEF AuthRead, At, TypeInv, TypeOK, Local, LocalOK, PCs
    <3>2. th' = [th EXCEPT ![t] = l]
      BY <1>1, <2>2 DEF AuthRead
    <3>3. th' \in [Actors -> Local] /\ \A b \in Actors : LocalOK(th'[b])
      BY <1>0, <3>1, <3>2, ThreadStep
    <3> QED BY <1>1, <3>3 DEF AuthRead, TypeInv, TypeOK, account, limiter, counts, history, disk
  <2> QED BY <2>1, <2>2
<1>9. CASE ReadClock(t)
  <2> DEFINE l == [th[t] EXCEPT !.clock = now, !.pc = "lock"]
  <2>1. now \in Nat
    BY AccountAssumption DEF TypeInv, TypeOK
  <2>2. l \in Local /\ LocalOK(l)
    BY <1>0, <1>9, <2>1 DEF ReadClock, At, Local, LocalOK, PCs
  <2>3. th' = [th EXCEPT ![t] = l]
    BY <1>9 DEF ReadClock
  <2>4. th' \in [Actors -> Local] /\ \A b \in Actors : LocalOK(th'[b])
    BY <1>0, <2>2, <2>3, ThreadStep
  <2> QED BY <1>9, <2>4 DEF ReadClock, TypeInv, TypeOK, account, limiter, counts, history, disk
<1>2. CASE Reserve(t)
  <2> DEFINE l == [th[t] EXCEPT !.pc = "check", !.clock = 0]
  <2>1. entries' \in [Keys -> Entry \cup {None}] /\ tries' \in [Keys -> [n : Nat, last : Nat]]
    BY <1>2, CountType DEF Reserve, At, limiter, TypeInv, TypeOK
  <2>2. l \in Local /\ LocalOK(l)
    BY <1>0, <1>2 DEF Reserve, At, Local, LocalOK, PCs
  <2>3. Finish(t) \/ th' = [th EXCEPT ![t] = l]
    BY <1>2 DEF Reserve
  <2>4. th' \in [Actors -> Local] /\ \A b \in Actors : LocalOK(th'[b])
    BY <1>0, <2>2, <2>3, FinishStep, ThreadStep
  <2> QED BY <1>2, <2>1, <2>4 DEF Reserve, TypeInv, TypeOK, account, counts, history, disk
<1>3. CASE ReserveFails(t)
  <2>1. entries' \in [Keys -> Entry \cup {None}] /\ tries' \in [Keys -> [n : Nat, last : Nat]]
    BY <1>3, CountType DEF ReserveFails, At, limiter, TypeInv, TypeOK
  <2>2. th' \in [Actors -> Local] /\ \A b \in Actors : LocalOK(th'[b])
    BY <1>0, <1>3, FinishStep DEF ReserveFails
  <2> QED BY <1>3, <2>1, <2>2, CountTypes DEF ReserveFails, TypeInv, TypeOK, account, history, disk
<1>4. CASE Check(t)
  <2>1. th' \in [Actors -> Local] /\ \A b \in Actors : LocalOK(th'[b])
    <3>1. "success" \in PCs /\ LocalOK([th[t] EXCEPT !.pc = "success"])
      BY <1>0, <1>4 DEF Check, At, Local, LocalOK, PCs
    <3> QED BY <1>0, <1>4, <3>1, FinishStep, GotoStep DEF Check
  <2> QED BY <1>4, <2>1 DEF Check, TypeInv, TypeOK, account, limiter, counts, history, disk
<1>5. CASE Success(t)
  <2>1. th' \in [Actors -> Local] /\ \A b \in Actors : LocalOK(th'[b])
    <3>1. CASE th[t].job = "verify" /\ th[t].seen.old
      <4>1. "migrate" \in PCs /\ LocalOK([th[t] EXCEPT !.pc = "migrate"])
        BY <1>0, <1>5, <3>1 DEF Success, At, Local, LocalOK, PCs
      <4>2. Goto(t, "migrate")
        BY <1>5, <3>1 DEF Success
      <4> QED BY <1>0, <4>1, <4>2, GotoStep
    <3>2. CASE th[t].job = "verify" /\ ~th[t].seen.old
      <4>1. Finish(t)
        BY <1>5, <3>2 DEF Success
      <4> QED BY <1>0, <4>1, FinishStep
    <3>3. CASE th[t].job = "update"
      <4>1. /\ "move" \in PCs /\ LocalOK([th[t] EXCEPT !.pc = "move"])
            /\ "write" \in PCs /\ LocalOK([th[t] EXCEPT !.pc = "write"])
        BY <1>0, <1>5, <3>3 DEF Success, At, Local, LocalOK, PCs
      <4>2. Goto(t, "move") \/ Goto(t, "write")
        BY <1>5, <3>3 DEF Success
      <4> QED BY <1>0, <4>1, <4>2, GotoStep
    <3> QED BY <1>0, <1>5, <3>1, <3>2, <3>3 DEF Success, At, LocalOK
  <2>2. entries' \in [Keys -> Entry \cup {None}] /\ tries' \in [Keys -> [n : Nat, last : Nat]]
    BY <1>5, DropType DEF Success
  <2> QED BY <1>5, <2>1, <2>2 DEF Success, TypeInv, TypeOK, account, counts, history, disk
<1>6. CASE SuccessFails(t)
  <2>1. th' \in [Actors -> Local] /\ \A b \in Actors : LocalOK(th'[b])
    BY <1>0, <1>6, FinishStep DEF SuccessFails
  <2>2. entries' \in [Keys -> Entry \cup {None}] /\ tries' \in [Keys -> [n : Nat, last : Nat]]
    BY <1>6, DropType DEF SuccessFails, limiter, TypeInv, TypeOK
  <2> QED BY <1>6, <2>1, <2>2, CountTypes DEF SuccessFails, TypeInv, TypeOK, account, history, disk
<1>7. ASSUME NEW ok \in BOOLEAN, Migrate(t, ok) PROVE TypeInv'
  <2>1. th' \in [Actors -> Local] /\ \A b \in Actors : LocalOK(th'[b])
    BY <1>0, <1>7, FinishStep DEF Migrate
  <2>2. [th[t].seen EXCEPT !.old = FALSE] \in Credential
    BY <1>0, <1>7 DEF Migrate, At, Local, LocalOK, Credential
  <2>3. /\ cred' \in Credential \cup {None}
        /\ requests' \in 0 .. MaxRequests /\ faults' \in 0 .. MaxFaults /\ crashes' \in 0 .. MaxCrashes
    BY <1>7, <2>2, WriteType DEF Migrate
  <2> QED BY <1>7, <2>1, <2>3 DEF Migrate, TypeInv, TypeOK, limiter, disk
<1>8. ASSUME NEW p \in Passwords, Verify(t, p) PROVE TypeInv'
  <2> DEFINE l == [Idle EXCEPT !.pc = "auth", !.job = "verify", !.pw = p]
  <2>1. l \in Local /\ LocalOK(l)
    BY DEF Idle, Local, LocalOK, PCs, Jobs
  <2>2. Begin(t, l)
    BY <1>8 DEF Verify
  <2>3. th' \in [Actors -> Local] /\ \A b \in Actors : LocalOK(th'[b])
    BY <1>0, <2>1, <2>2, ThreadStep DEF Begin
  <2>4. requests' \in 0 .. MaxRequests /\ UNCHANGED <<faults, crashes>>
    BY <2>2, CountTypes
  <2> QED BY <1>8, <2>3, <2>4 DEF Verify, TypeInv, TypeOK, account, limiter, history, disk
<1> QED BY <1>1, <1>2, <1>3, <1>4, <1>5, <1>6, <1>7, <1>8, <1>9

\* A rename of homes leaves homes.
LEMMA RenamedType ==
    ASSUME TypeInv, NEW from \in Names, NEW to \in Names
    PROVE  Renamed(from, to) \in Homes
BY DEF Renamed, TypeInv, TypeOK, Homes

\* The renames, which the handler and the command share, keep the types.
LEMMA TypeMove ==
    ASSUME TypeInv, NEW a \in Actors, Move(a) \/ MoveFails(a) \/ MoveBackFails(a)
    PROVE  TypeInv'
<1>0. th[a] \in Local /\ LocalOK(th[a])
  BY DEF TypeInv, TypeOK
<1>1. CASE Move(a)
  <2> DEFINE l == [th[a] EXCEPT !.pc = "write", !.moved = TRUE]
  <2>1. l \in Local /\ LocalOK(l)
    BY <1>0, <1>1 DEF Move, At, Local, LocalOK, PCs
  <2>2. Finish(a) \/ th' = [th EXCEPT ![a] = l]
    BY <1>1 DEF Move
  <2>3. th' \in [Actors -> Local] /\ \A b \in Actors : LocalOK(th'[b])
    BY <2>1, <2>2, FinishStep, ThreadStep
  <2>4. th[a].old.user \in Users /\ th[a].want.user \in Users
    BY <1>0, <1>1 DEF Move, At, Local, LocalOK, Credential, Wish
  <2>5. home' \in drive' /\ drive' \subseteq Homes
    BY <1>1, <2>4, RenamedType, DiskType DEF Move, Rename, Names, disk, TypeInv, TypeOK
  <2> QED BY <1>1, <2>3, <2>5 DEF Move, TypeInv, TypeOK, account, limiter, counts, history, disk
<1>2. CASE MoveFails(a)
  <2>1. th' \in [Actors -> Local] /\ \A b \in Actors : LocalOK(th'[b])
    BY <1>2, FinishStep DEF MoveFails
  <2>2. th[a].old.user \in Users /\ th[a].want.user \in Users
    BY <1>0, <1>2 DEF MoveFails, At, Local, LocalOK, Credential, Wish
  <2>3. home' \in drive' /\ drive' \subseteq Homes /\ halfdone' \in BOOLEAN
    BY <1>2, <2>2, RenamedType, DiskType DEF MoveFails, Rename, Names, disk, TypeInv, TypeOK
  <2> QED BY <1>2, <2>1, <2>3, CountTypes DEF MoveFails, TypeInv, TypeOK, limiter
<1>3. CASE MoveBackFails(a)
  <2>1. th' \in [Actors -> Local] /\ \A b \in Actors : LocalOK(th'[b])
    BY <1>3, FinishStep DEF MoveBackFails
  <2>2. th[a].old.user \in Users /\ th[a].want.user \in Users
    BY <1>0, <1>3 DEF MoveBackFails, At, Local, LocalOK, Credential, Wish
  <2>3. home' \in drive' /\ drive' \subseteq Homes
    BY <1>3, <2>2, RenamedType, DiskType DEF MoveBackFails, RenameBack, Names, disk, TypeInv, TypeOK
  <2>4. halfdone' \in BOOLEAN
    BY <1>3 DEF MoveBackFails
  <2> QED BY <1>3, <2>1, <2>3, <2>4, CountTypes DEF MoveBackFails, TypeInv, TypeOK, limiter
<1> QED BY <1>1, <1>2, <1>3

\* The other steps of handlesettingsmasterupdate keep the types.
LEMMA TypeUpdate ==
    ASSUME TypeInv, NEW t \in Threads,
           \/ PublishRead(t) \/ MoveBack(t)
           \/ (\E ok \in BOOLEAN : Write(t, ok) \/ Publish(t, ok) \/ Restore(t, ok))
           \/ (\E p \in Passwords, w \in Wish : Update(t, p, w))
    PROVE  TypeInv'
<1>0. t \in Actors /\ th[t] \in Local /\ LocalOK(th[t])
  BY DEF TypeInv, TypeOK, Actors
<1>1. CASE PublishRead(t)
  <2>1. PICK at \in {"publish", "republish"} :
          /\ At(t, at)
          /\ th' = [th EXCEPT ![t].seen = cred,
                      ![t].pc = IF at = "publish" THEN "publishing" ELSE "republishing"]
    BY <1>1 DEF PublishRead
  <2> DEFINE l == [th[t] EXCEPT !.seen = cred,
                      !.pc = IF at = "publish" THEN "publishing" ELSE "republishing"]
  <2>2. l \in Local /\ LocalOK(l)
    BY <1>0, <1>1, <2>1 DEF PublishRead, At, TypeInv, TypeOK, Local, LocalOK, PCs
  <2>3. th' = [th EXCEPT ![t] = l]
    BY <2>1
  <2>4. th' \in [Actors -> Local] /\ \A b \in Actors : LocalOK(th'[b])
    BY <1>0, <2>2, <2>3, ThreadStep
  <2> QED BY <1>1, <2>4 DEF PublishRead, TypeInv, TypeOK, account, limiter, counts, history, disk
<1>2. CASE MoveBack(t)
  <2>1. "republish" \in PCs /\ LocalOK([th[t] EXCEPT !.pc = "republish"])
    BY <1>0, <1>2 DEF MoveBack, At, Local, LocalOK, PCs
  <2>2. th' \in [Actors -> Local] /\ \A b \in Actors : LocalOK(th'[b])
    BY <1>0, <1>2, <2>1, GotoStep DEF MoveBack
  <2>3. th[t].old.user \in Users /\ th[t].want.user \in Users
    BY <1>0, <1>2 DEF MoveBack, At, Local, LocalOK, Credential, Wish
  <2>4. home' \in drive' /\ drive' \subseteq Homes
    BY <1>2, <2>3, RenamedType, DiskType DEF MoveBack, RenameBack, Names, disk, TypeInv, TypeOK
  <2> QED BY <1>2, <2>2, <2>4 DEF MoveBack, TypeInv, TypeOK, account, limiter, counts, history, disk
<1>3. ASSUME NEW ok \in BOOLEAN, Write(t, ok) PROVE TypeInv'
  <2>1. /\ "publish" \in PCs /\ LocalOK([th[t] EXCEPT !.pc = "publish"])
        /\ "restore" \in PCs /\ LocalOK([th[t] EXCEPT !.pc = "restore"])
    BY <1>0, <1>3 DEF Write, At, Local, LocalOK, PCs
  <2>2. Goto(t, "publish") \/ Goto(t, "restore")
    BY <1>3 DEF Write
  <2>3. th' \in [Actors -> Local] /\ \A b \in Actors : LocalOK(th'[b])
    BY <1>0, <2>1, <2>2, GotoStep
  <2>4. /\ cred' \in Credential \cup {None}
        /\ requests' \in 0 .. MaxRequests /\ faults' \in 0 .. MaxFaults /\ crashes' \in 0 .. MaxCrashes
    BY <1>0, <1>3, ReplacementType, WriteType DEF Write
  <2> QED BY <1>3, <2>3, <2>4 DEF Write, TypeInv, TypeOK, limiter, history, disk
<1>4. ASSUME NEW ok \in BOOLEAN, Publish(t, ok) PROVE TypeInv'
  <2>1. At(t, "publishing") => "restore" \in PCs /\ LocalOK([th[t] EXCEPT !.pc = "restore"])
    BY <1>0 DEF At, Local, LocalOK, PCs
  <2>2. (At(t, "publishing") /\ Goto(t, "restore")) \/ Finish(t)
    BY <1>4 DEF Publish
  <2>3. th' \in [Actors -> Local] /\ \A b \in Actors : LocalOK(th'[b])
    BY <1>0, <2>1, <2>2, GotoStep, FinishStep
  <2>4. th[t].seen.user \in Users
    BY <1>0, <1>4 DEF Publish, At, Local, LocalOK, Credential
  <2>5. session' \in Users \cup {None}
    BY <1>4, <2>4 DEF Publish, TypeInv, TypeOK
  <2>6. requests' \in 0 .. MaxRequests /\ faults' \in 0 .. MaxFaults /\ crashes' \in 0 .. MaxCrashes
    BY <1>4, CountTypes DEF Publish, TypeInv, TypeOK
  <2>7. halfdone' \in BOOLEAN
    BY <1>4 DEF Publish
  <2> QED BY <1>4, <2>3, <2>5, <2>6, <2>7 DEF Publish, TypeInv, TypeOK, limiter, disk
<1>5. ASSUME NEW ok \in BOOLEAN, Restore(t, ok) PROVE TypeInv'
  <2>1. "moveback" \in PCs /\ LocalOK([th[t] EXCEPT !.pc = "moveback"]) /\ th[t].old \in Credential
    BY <1>0, <1>5 DEF Restore, At, Local, LocalOK, PCs
  <2>2. th' \in [Actors -> Local] /\ \A b \in Actors : LocalOK(th'[b])
    BY <1>0, <1>5, <2>1, GotoStep, FinishStep DEF Restore
  <2>3. /\ cred' \in Credential \cup {None}
        /\ requests' \in 0 .. MaxRequests /\ faults' \in 0 .. MaxFaults /\ crashes' \in 0 .. MaxCrashes
    BY <1>5, <2>1, WriteType DEF Restore
  <2> QED BY <1>5, <2>2, <2>3 DEF Restore, TypeInv, TypeOK, limiter, disk
<1>6. ASSUME NEW p \in Passwords, NEW w \in Wish, Update(t, p, w) PROVE TypeInv'
  <2> DEFINE l == [Idle EXCEPT !.pc = IF w.user # cred.user \/ w.pw # None THEN "auth" ELSE "write",
                             !.job = "update", !.old = cred, !.pw = p, !.want = w]
  <2>1. l \in Local /\ LocalOK(l)
    BY <1>6 DEF Update, TypeInv, TypeOK, Idle, Local, LocalOK, PCs, Jobs, Wish
  <2>2. Begin(t, l)
    BY <1>6 DEF Update
  <2>3. th' \in [Actors -> Local] /\ \A b \in Actors : LocalOK(th'[b])
    BY <1>0, <2>1, <2>2, ThreadStep DEF Begin
  <2>4. requests' \in 0 .. MaxRequests /\ UNCHANGED <<faults, crashes>>
    BY <2>2, CountTypes
  <2> QED BY <1>6, <2>3, <2>4 DEF Update, TypeInv, TypeOK, account, limiter, disk
<1> QED BY <1>1, <1>2, <1>3, <1>4, <1>5, <1>6

\* The steps of the command keep the types.
LEMMA TypeCommand ==
    ASSUME TypeInv,
           \/ (\E u \in Users, p \in Passwords : Provision(u, p))
           \/ (\E w \in Wish : Change(w))
           \/ (\E ok \in BOOLEAN : ProvisionWrite(ok) \/ ChangeWrite(ok) \/ SetAside(ok) \/ Unlink(ok))
           \/ ChangeBack \/ Remove \/ Rmtree \/ RmtreeFails
    PROVE  TypeInv'
<1>0. Tool \in Actors /\ th[Tool] \in Local /\ LocalOK(th[Tool])
  BY DEF TypeInv, TypeOK, Actors
<1>1. ASSUME NEW u \in Users, NEW p \in Passwords, Provision(u, p) PROVE TypeInv'
  <2> DEFINE l == [Idle EXCEPT !.pc = "write", !.job = "provision", !.want = [user |-> u, pw |-> p]]
  <2>1. p # None
    BY NoneAssumption
  <2>2. l \in Local /\ LocalOK(l)
    BY <2>1 DEF Idle, Local, LocalOK, PCs, Jobs, Wish
  <2>3. Begin(Tool, l)
    BY <1>1 DEF Provision
  <2>4. th' \in [Actors -> Local] /\ \A b \in Actors : LocalOK(th'[b])
    BY <1>0, <2>2, <2>3, ThreadStep DEF Begin
  <2>5. requests' \in 0 .. MaxRequests /\ UNCHANGED <<faults, crashes>>
    BY <2>3, CountTypes
  <2>6. [home EXCEPT ![u] = IF @ = "none" THEN "empty" ELSE @] \in Homes
    BY DEF TypeInv, TypeOK, Homes
  <2>7. home' \in drive' /\ drive' \subseteq Homes
    BY <1>1, <2>6, DiskType DEF Provision
  <2> QED BY <1>1, <2>4, <2>5, <2>7 DEF Provision, TypeInv, TypeOK, limiter, history, disk
<1>2. ASSUME NEW w \in Wish, Change(w) PROVE TypeInv'
  <2> DEFINE l == [Idle EXCEPT !.pc = IF w.user # cred.user THEN "move" ELSE "write",
                          !.job = "change", !.old = cred, !.want = w]
  <2>1. l \in Local /\ LocalOK(l)
    BY <1>2 DEF Change, TypeInv, TypeOK, Idle, Local, LocalOK, PCs, Jobs
  <2>2. Begin(Tool, l)
    BY <1>2 DEF Change
  <2>3. th' \in [Actors -> Local] /\ \A b \in Actors : LocalOK(th'[b])
    BY <1>0, <2>1, <2>2, ThreadStep DEF Begin
  <2>4. requests' \in 0 .. MaxRequests /\ UNCHANGED <<faults, crashes>>
    BY <2>2, CountTypes
  <2> QED BY <1>2, <2>3, <2>4 DEF Change, TypeInv, TypeOK, account, limiter, history, disk
<1>3. ASSUME NEW ok \in BOOLEAN, ProvisionWrite(ok) PROVE TypeInv'
  <2>1. th' \in [Actors -> Local] /\ \A b \in Actors : LocalOK(th'[b])
    BY <1>0, <1>3, FinishStep DEF ProvisionWrite
  <2>2. [user |-> th[Tool].want.user, pw |-> th[Tool].want.pw, old |-> FALSE] \in Credential
    BY <1>0, <1>3 DEF ProvisionWrite, LocalOK, Wish, Credential
  <2>3. /\ cred' \in Credential \cup {None}
        /\ requests' \in 0 .. MaxRequests /\ faults' \in 0 .. MaxFaults /\ crashes' \in 0 .. MaxCrashes
    BY <1>3, <2>2, WriteType DEF ProvisionWrite
  <2>4. removed' \in BOOLEAN
    BY <1>3 DEF ProvisionWrite
  <2> QED BY <1>3, <2>1, <2>3, <2>4 DEF ProvisionWrite, TypeInv, TypeOK, limiter, disk
<1>4. ASSUME NEW ok \in BOOLEAN, ChangeWrite(ok) PROVE TypeInv'
  <2>1. "moveback" \in PCs /\ LocalOK([th[Tool] EXCEPT !.pc = "moveback"])
    BY <1>0, <1>4 DEF ChangeWrite, At, Local, LocalOK, PCs
  <2>2. th' \in [Actors -> Local] /\ \A b \in Actors : LocalOK(th'[b])
    BY <1>0, <1>4, <2>1, GotoStep, FinishStep DEF ChangeWrite
  <2>3. /\ cred' \in Credential \cup {None}
        /\ requests' \in 0 .. MaxRequests /\ faults' \in 0 .. MaxFaults /\ crashes' \in 0 .. MaxCrashes
    BY <1>0, <1>4, ReplacementType, WriteType DEF ChangeWrite
  <2> QED BY <1>4, <2>2, <2>3 DEF ChangeWrite, TypeInv, TypeOK, limiter, history, disk
<1>5. ASSUME NEW ok \in BOOLEAN, Unlink(ok) PROVE TypeInv'
  <2>1. "rmtree" \in PCs /\ LocalOK([th[Tool] EXCEPT !.pc = "rmtree"])
    BY <1>0, <1>5 DEF Unlink, At, Local, LocalOK, PCs
  <2>2. th' \in [Actors -> Local] /\ \A b \in Actors : LocalOK(th'[b])
    BY <1>0, <1>5, <2>1, GotoStep, FinishStep DEF Unlink
  <2>3. /\ cred' \in Credential \cup {None}
        /\ requests' \in 0 .. MaxRequests /\ faults' \in 0 .. MaxFaults /\ crashes' \in 0 .. MaxCrashes
    BY <1>5, CountTypes DEF Unlink, counts, TypeInv, TypeOK, disk
  <2>4. home' \in drive' /\ drive' \subseteq Homes
    <3>1. Renamed(Quarantine, th[Tool].old.user) \in Homes
      BY <1>0, <1>5, RenamedType DEF Unlink, At, Local, LocalOK, Credential, Names
    <3> QED BY <1>5, <3>1, DiskType DEF Unlink, disk, TypeInv, TypeOK
  <2>5. removed' \in BOOLEAN /\ halfdone' \in BOOLEAN
    BY <1>5 DEF Unlink, TypeInv, TypeOK
  <2> QED BY <1>5, <2>2, <2>3, <2>4, <2>5 DEF Unlink, TypeInv, TypeOK, limiter, disk
<1>6. CASE ChangeBack
  <2>1. th' \in [Actors -> Local] /\ \A b \in Actors : LocalOK(th'[b])
    BY <1>0, <1>6, FinishStep DEF ChangeBack
  <2>2. th[Tool].old.user \in Users /\ th[Tool].want.user \in Users
    BY <1>0, <1>6 DEF ChangeBack, At, Local, LocalOK, Credential, Wish
  <2>3. home' \in drive' /\ drive' \subseteq Homes
    BY <1>6, <2>2, RenamedType, DiskType DEF ChangeBack, RenameBack, Names, disk, TypeInv, TypeOK
  <2> QED BY <1>6, <2>1, <2>3 DEF ChangeBack, TypeInv, TypeOK, limiter, counts, disk
<1>7. CASE Remove
  <2> DEFINE l == [Idle EXCEPT !.pc = "setaside", !.job = "remove", !.old = cred]
  <2>1. l \in Local /\ LocalOK(l)
    BY <1>7 DEF Remove, TypeInv, TypeOK, Idle, Local, LocalOK, PCs, Jobs
  <2>2. Begin(Tool, l)
    BY <1>7 DEF Remove
  <2>3. th' \in [Actors -> Local] /\ \A b \in Actors : LocalOK(th'[b])
    BY <1>0, <2>1, <2>2, ThreadStep DEF Begin
  <2>4. requests' \in 0 .. MaxRequests /\ UNCHANGED <<faults, crashes>>
    BY <2>2, CountTypes
  <2> QED BY <1>7, <2>3, <2>4 DEF Remove, TypeInv, TypeOK, account, limiter, history, disk
<1>10. ASSUME NEW ok \in BOOLEAN, SetAside(ok) PROVE TypeInv'
  <2>1. "unlink" \in PCs /\ LocalOK([th[Tool] EXCEPT !.pc = "unlink"])
    BY <1>0, <1>10 DEF SetAside, At, Local, LocalOK, PCs
  <2>2. th' \in [Actors -> Local] /\ \A b \in Actors : LocalOK(th'[b])
    BY <1>0, <1>10, <2>1, GotoStep, FinishStep DEF SetAside
  <2>3. Renamed(th[Tool].old.user, Quarantine) \in Homes
    BY <1>0, <1>10, RenamedType DEF SetAside, At, Local, LocalOK, Credential, Names
  <2>4. home' \in drive' /\ drive' \subseteq Homes
    BY <1>10, <2>3, DiskType DEF SetAside
  <2>5. requests' \in 0 .. MaxRequests /\ faults' \in 0 .. MaxFaults /\ crashes' \in 0 .. MaxCrashes
    BY <1>10, CountTypes DEF SetAside, counts, TypeInv, TypeOK
  <2>6. halfdone' \in BOOLEAN
    BY <1>10 DEF SetAside, TypeInv, TypeOK
  <2> QED BY <1>10, <2>2, <2>4, <2>5, <2>6 DEF SetAside, TypeInv, TypeOK, limiter
<1>8. CASE Rmtree
  <2>1. th' \in [Actors -> Local] /\ \A b \in Actors : LocalOK(th'[b])
    BY <1>0, <1>8, FinishStep DEF Rmtree
  <2>2. [home EXCEPT ![Quarantine] = "none"] \in Homes
    BY DEF TypeInv, TypeOK, Homes
  <2>3. home' \in drive' /\ drive' \subseteq Homes
    BY <1>8, <2>2, DiskType DEF Rmtree
  <2> QED BY <1>8, <2>1, <2>3 DEF Rmtree, TypeInv, TypeOK, limiter, counts
<1>9. CASE RmtreeFails
  <2>1. th' \in [Actors -> Local] /\ \A b \in Actors : LocalOK(th'[b])
    BY <1>0, <1>9, FinishStep DEF RmtreeFails
  <2> QED BY <1>9, <2>1, CountTypes DEF RmtreeFails, TypeInv, TypeOK, account, limiter, history, disk
<1> QED BY <1>1, <1>2, <1>3, <1>4, <1>5, <1>6, <1>7, <1>8, <1>9, <1>10

\* The steps of the machine keep the types.
LEMMA TypeMachine ==
    ASSUME TypeInv, Login \/ Use \/ Writeback \/ Tick \/ Off \/ Crash
    PROVE  TypeInv'
<1>0. home \in drive /\ drive \subseteq Homes
  BY DEF TypeInv, TypeOK
<1>1. CASE Login
  <2>1. cred.user \in Users
    BY <1>1 DEF Login, TypeInv, TypeOK, Credential
  <2> QED BY <1>1, <2>1 DEF Login, TypeInv, TypeOK, limiter, counts, history, disk
<1>2. CASE Use
  <2>1. [home EXCEPT ![session] = "files"] \in Homes
    BY <1>0 DEF Homes
  <2>2. home' \in drive' /\ drive' \subseteq Homes
    BY <1>2, <2>1, DiskType DEF Use
  <2> QED BY <1>2, <2>2 DEF Use, TypeInv, TypeOK, limiter, counts
<1>6. CASE Writeback
  <2>1. home' \in drive' /\ drive' \subseteq Homes
    BY <1>0, <1>6, DiskType DEF Writeback
  <2> QED BY <1>6, <2>1 DEF Writeback, TypeInv, TypeOK, limiter, counts, history
<1>3. CASE Tick
  <2>1. now' \in 0 .. MaxTime
    BY <1>3, AccountAssumption DEF Tick, TypeInv, TypeOK
  <2> QED BY <1>3, <2>1 DEF Tick, TypeInv, TypeOK, account, limiter, counts, history, disk
<1>4. CASE Off
  <2>1. home' \in drive' /\ drive' \subseteq Homes
    BY <1>0, <1>4, DiskType DEF Off
  <2> QED BY <1>4, <2>1 DEF Off, TypeInv, TypeOK, limiter, counts, history
<1>5. CASE Crash
  <2>1. th' \in [Actors -> Local] /\ \A b \in Actors : LocalOK(th'[b])
    BY <1>5, IdleOK DEF Crash
  <2>2. crashes' \in 0 .. MaxCrashes
    BY <1>5, AccountAssumption DEF Crash, TypeInv, TypeOK
  <2>3. halfdone' \in BOOLEAN
    BY <1>5 DEF Crash
  <2>4. home' \in drive' /\ drive' \subseteq Homes
    BY <1>0, <1>5, DiskType DEF Crash
  <2> QED BY <1>5, <2>1, <2>2, <2>3, <2>4 DEF Crash, TypeInv, TypeOK, limiter
<1> QED BY <1>1, <1>2, <1>3, <1>4, <1>5, <1>6

\* The type invariant is inductive.
LEMMA TypeNext == TypeInv /\ [Next]_vars => TypeInv'
<1> SUFFICES ASSUME TypeInv, [Next]_vars PROVE TypeInv'
  OBVIOUS
<1>1. CASE UNCHANGED vars
  BY <1>1 DEF vars, TypeInv, TypeOK, account, limiter, counts, history, disk
<1>2. CASE Command
  BY <1>2, TypeMove, TypeCommand DEF Command, Actors
<1>3. ASSUME NEW t \in Threads, Thread(t) PROVE TypeInv'
  BY <1>3, TypeAuth, TypeMove, TypeUpdate DEF Thread, Actors
<1> QED BY <1>1, <1>2, <1>3, TypeMachine DEF Next

\* The account's files, the limiter and the programs keep their types through every fault,
\* crash and interleaving of the requests.
THEOREM TypeCorrect == Spec => []TypeOK
<1>1. TypeInv => TypeOK
  BY DEF TypeInv
<1> QED BY <1>1, TypeInit, TypeNext, PTL DEF Spec

(* ------------------------------- The limiter ------------------------------- *)

\* The limiter's entry is that of the attempts counted: as many, up to the cap, and open
\* again when the delay after the reading of the last of them is over.
LimiterHolds ==
    \A k \in Keys :
        /\ tries[k].n = 0 <=> entries[k] = None
        /\ entries[k] # None =>
              /\ entries[k].failures = Counted(tries[k].n)
              /\ entries[k].until = tries[k].last + Delay(Counted(tries[k].n))

\* A thread's reading of the clock is not ahead of it.
ClocksHold == \A a \in Actors : th[a].clock <= now

\* An empty limiter file stands for no attempts.
LEMMA LimiterInit == Init => LimiterHolds /\ ClocksHold
BY DEF Init, LimiterHolds, ClocksHold, NoTries, Idle

\* A step keeps an actor's reading of the clock, forgets it or reads again.
LEMMA ClockFrame ==
    ASSUME TypeInv, [Next]_vars, NEW a \in Actors
    PROVE  th'[a].clock \in {0, th[a].clock, now} /\ now' \in {now, now + 1}
<1>0. th \in [Actors -> Local] /\ Tool \in Actors /\ Threads \subseteq Actors
  BY DEF TypeInv, TypeOK, Actors
<1> USE DEF Finish, Goto, Begin, Idle, Local
<1>1. CASE UNCHANGED vars
  BY <1>1 DEF vars
<1>2. CASE Command
  <2>1. CASE Move(Tool)
    BY <1>0, <2>1 DEF Move
  <2>6. ASSUME Finish(Tool), UNCHANGED now
        PROVE th'[a].clock \in {0, th[a].clock, now} /\ now' \in {now, now + 1}
    BY <1>0, <2>6
  <2>7. CASE MoveFails(Tool) \/ MoveBackFails(Tool) \/ ChangeBack \/ Rmtree \/ RmtreeFails
    BY <2>6, <2>7 DEF MoveFails, MoveBackFails, ChangeBack, Rmtree, RmtreeFails
  <2>2. CASE Remove
    BY <1>0, <2>2 DEF Remove
  <2>3. ASSUME NEW ok \in BOOLEAN, ProvisionWrite(ok) \/ ChangeWrite(ok) \/ SetAside(ok) \/ Unlink(ok)
        PROVE th'[a].clock \in {0, th[a].clock, now} /\ now' \in {now, now + 1}
    BY <1>0, <2>3 DEF ProvisionWrite, ChangeWrite, SetAside, Unlink
  <2>4. ASSUME NEW u \in Users, NEW p \in Passwords, Provision(u, p)
        PROVE th'[a].clock \in {0, th[a].clock, now} /\ now' \in {now, now + 1}
    BY <1>0, <2>4 DEF Provision
  <2>5. ASSUME NEW w \in Wish, Change(w)
        PROVE th'[a].clock \in {0, th[a].clock, now} /\ now' \in {now, now + 1}
    BY <1>0, <2>5 DEF Change
  <2> QED BY <1>2, <2>1, <2>2, <2>3, <2>4, <2>5, <2>7 DEF Command
<1>3. ASSUME NEW t \in Threads, Thread(t)
      PROVE th'[a].clock \in {0, th[a].clock, now} /\ now' \in {now, now + 1}
  <2>1. CASE AuthRead(t) \/ ReadClock(t) \/ Reserve(t) \/ ReserveFails(t) \/ Check(t)
    BY <1>0, <2>1 DEF AuthRead, ReadClock, Reserve, ReserveFails, Check
  <2>2. CASE Success(t) \/ SuccessFails(t)
    BY <1>0, <2>2 DEF Success, SuccessFails
  <2>3. CASE Move(t) \/ MoveFails(t) \/ PublishRead(t) \/ MoveBack(t) \/ MoveBackFails(t)
    BY <1>0, <2>3 DEF Move, MoveFails, PublishRead, MoveBack, MoveBackFails
  <2>4. ASSUME NEW ok \in BOOLEAN, Migrate(t, ok) \/ Write(t, ok) \/ Publish(t, ok) \/ Restore(t, ok)
        PROVE th'[a].clock \in {0, th[a].clock, now} /\ now' \in {now, now + 1}
    BY <1>0, <2>4 DEF Migrate, Write, Publish, Restore
  <2>5. ASSUME NEW p \in Passwords, Verify(t, p)
        PROVE th'[a].clock \in {0, th[a].clock, now} /\ now' \in {now, now + 1}
    BY <1>0, <2>5 DEF Verify
  <2>6. ASSUME NEW p \in Passwords, NEW w \in Wish, Update(t, p, w)
        PROVE th'[a].clock \in {0, th[a].clock, now} /\ now' \in {now, now + 1}
    BY <1>0, <2>6 DEF Update
  <2> QED BY <1>3, <2>1, <2>2, <2>3, <2>4, <2>5, <2>6 DEF Thread
<1>4. CASE Login \/ Use \/ Writeback \/ Tick \/ Off
  BY <1>4 DEF Login, Use, Writeback, Tick, Off
<1>5. CASE Crash
  BY <1>0, <1>5 DEF Crash
<1> QED BY <1>1, <1>2, <1>3, <1>4, <1>5 DEF Next

\* Readings stay behind the clock.
LEMMA ClocksNext == TypeInv /\ ClocksHold /\ [Next]_vars => ClocksHold'
<1> SUFFICES ASSUME TypeInv, ClocksHold, [Next]_vars, NEW a \in Actors PROVE th'[a].clock <= now'
  BY DEF ClocksHold
<1>1. now \in Nat /\ th[a].clock \in Nat /\ th[a].clock <= now
  BY AccountAssumption DEF TypeInv, TypeOK, Local, ClocksHold
<1> QED BY <1>1, ClockFrame

\* One more attempt counts one more, up to the cap.
LEMMA CountedOnce == \A n \in Nat : Counted((IF n = 0 THEN 0 ELSE Counted(n)) + 1) = Counted(n + 1)
BY AccountAssumption DEF Counted

\* Nothing but reserve and success, done or failed, touches the limiter.
LEMMA LimiterFrame ==
    ASSUME [Next]_vars
    PROVE  \/ UNCHANGED limiter
           \/ \E t \in Threads : \/ At(t, "lock") /\ ~Blocked(t) /\ Count(t)
                                 \/ At(t, "success") /\ Drop(t)
<1>1. CASE UNCHANGED vars
  BY <1>1 DEF vars
<1>2. CASE Command
  BY <1>2 DEF Command, Provision, Change, Move, MoveFails, MoveBackFails, ChangeBack, ProvisionWrite,
              ChangeWrite, SetAside, Unlink, Remove, Rmtree, RmtreeFails
<1>3. ASSUME NEW t \in Threads, Thread(t)
      PROVE \/ UNCHANGED limiter
            \/ At(t, "lock") /\ ~Blocked(t) /\ Count(t)
            \/ At(t, "success") /\ Drop(t)
  <2>1. CASE Reserve(t) \/ ReserveFails(t)
    BY <2>1 DEF Reserve, ReserveFails
  <2>2. CASE Success(t) \/ SuccessFails(t)
    BY <2>2 DEF Success, SuccessFails
  <2>3. CASE ~(Reserve(t) \/ ReserveFails(t) \/ Success(t) \/ SuccessFails(t))
    BY <1>3, <2>3 DEF Thread, AuthRead, ReadClock, Check, Move, MoveFails, PublishRead, MoveBack,
              MoveBackFails, Migrate, Write, Publish, Restore, Verify, Update
  <2> QED BY <2>1, <2>2, <2>3
<1>4. CASE Login \/ Use \/ Writeback \/ Tick \/ Off \/ Crash
  BY <1>4 DEF Login, Use, Writeback, Tick, Off, Crash
<1> QED BY <1>1, <1>2, <1>3, <1>4 DEF Next

\* An attempt on key k with a reading r of the clock, at or after the time of the entry before.
Attempt(k, r, stale) ==
    LET n == Counted(tries[k].n + 1) IN
    /\ tries[k].n > 0 => r >= tries[k].last + Delay(Counted(tries[k].n))
    /\ Delay(n) \in Int
    /\ entries' = [q \in Keys |->
           IF q = k THEN [failures |-> n, until |-> r + Delay(n), last |-> r]
           ELSE IF q \in stale THEN None ELSE entries[q]]
    /\ tries' = [q \in Keys |->
           IF q = k THEN [n |-> tries[k].n + 1, last |-> r]
           ELSE IF q \in stale THEN NoTries ELSE tries[q]]

\* What reserve counts is such an attempt, with the thread's reading.
LEMMA CountEffect ==
    ASSUME TypeInv, LimiterHolds, NEW t \in Threads, At(t, "lock"), ~Blocked(t), Count(t)
    PROVE  \E k \in Keys, stale \in SUBSET Keys : Attempt(k, th[t].clock, stale)
<1> DEFINE k == Key(t)
           r == th[t].clock
           before == IF entries[k] = None THEN 0 ELSE entries[k].failures
           m == Counted(before + 1)
           stale == {q \in Keys \ {k} : entries[q] # None /\ r > entries[q].last + Day}
<1>1. k \in Keys
  BY KeyType DEF At
<1>2. /\ ~(entries[k] # None /\ entries[k].until > r)
      /\ entries' = [q \in Keys |->
                       IF q = k THEN [failures |-> m, until |-> r + Delay(m), last |-> r]
                       ELSE IF q \in stale THEN None ELSE entries[q]]
      /\ tries' = [q \in Keys |->
                       IF q = k THEN [n |-> tries[k].n + 1, last |-> r]
                       ELSE IF q \in stale THEN NoTries ELSE tries[q]]
  BY Zenon DEF Count, Blocked
<1>0. r \in Nat
  BY DEF TypeInv, TypeOK, Actors, Local
<1> HIDE DEF k, r
<1>3. /\ tries[k].n \in Nat /\ tries[k].last \in Nat
      /\ entries[k] \in Entry \cup {None}
      /\ (tries[k].n = 0) <=> (entries[k] = None)
      /\ entries[k] # None => /\ entries[k].failures = Counted(tries[k].n)
                              /\ entries[k].until = tries[k].last + Delay(Counted(tries[k].n))
  BY <1>1 DEF TypeInv, TypeOK, LimiterHolds
<1>4. m = Counted(tries[k].n + 1)
  BY <1>3, CountedOnce
<1>5. Delay(m) \in Int
  BY <1>3, <1>4, CountedType, DelayType
<1>6. tries[k].n > 0 => r >= tries[k].last + Delay(Counted(tries[k].n))
  <2> SUFFICES ASSUME tries[k].n > 0 PROVE r >= tries[k].last + Delay(Counted(tries[k].n))
    OBVIOUS
  <2>1. Delay(Counted(tries[k].n)) \in Int
    BY <1>3, CountedType, DelayType
  <2> QED BY <1>0, <1>2, <1>3, <2>1
<1> HIDE DEF m, before
<1>7. stale \in SUBSET Keys
  OBVIOUS
<1> HIDE DEF stale
<1>8. Attempt(k, r, stale)
  BY <1>2, <1>4, <1>5, <1>6, Zenon DEF Attempt
<1> QED BY <1>1, <1>7, <1>8 DEF r

\* The limiter's entries go on standing for the attempts counted.
LEMMA LimiterNext == TypeInv /\ LimiterHolds /\ [Next]_vars => LimiterHolds'
<1> SUFFICES ASSUME TypeInv, LimiterHolds, [Next]_vars PROVE LimiterHolds'
  OBVIOUS
<1>1. CASE UNCHANGED limiter
  BY <1>1 DEF limiter, LimiterHolds
<1>2. ASSUME NEW t \in Threads, At(t, "lock"), ~Blocked(t), Count(t) PROVE LimiterHolds'
  <2> DEFINE r == th[t].clock
  <2>1. PICK k \in Keys, stale \in SUBSET Keys : Attempt(k, r, stale)
    BY <1>2, CountEffect
  <2>2. tries[k].n \in Nat /\ r \in Nat
    BY DEF TypeInv, TypeOK, Actors, Local
  <2> HIDE DEF r
  <2> DEFINE n == Counted(tries[k].n + 1)
             e == [failures |-> n, until |-> r + Delay(n), last |-> r]
  <2>3. e \in Entry
    <3>1. n \in 1 .. MaxCount
      BY <2>2, CountedType
    <3> HIDE DEF n
    <3> QED BY <2>1, <2>2, <3>1, DelayType DEF Entry
  <2>4. e # None
    BY <2>3, NoneAssumption
  <2>5. ASSUME NEW q \in Keys
        PROVE /\ tries'[q].n = 0 <=> entries'[q] = None
              /\ entries'[q] # None =>
                    /\ entries'[q].failures = Counted(tries'[q].n)
                    /\ entries'[q].until = tries'[q].last + Delay(Counted(tries'[q].n))
    <3>1. CASE q = k
      BY <2>1, <2>2, <2>4, <3>1 DEF Attempt
    <3>2. CASE q # k /\ q \in stale
      BY <2>1, <3>2 DEF NoTries, Attempt
    <3>3. CASE q # k /\ q \notin stale
      BY <2>1, <3>3 DEF LimiterHolds, Attempt
    <3> QED BY <3>1, <3>2, <3>3
  <2> QED BY <2>5 DEF LimiterHolds
<1>3. ASSUME NEW t \in Threads, At(t, "success"), Drop(t) PROVE LimiterHolds'
  BY <1>3 DEF Drop, LimiterHolds, NoTries, TypeInv, TypeOK
<1> QED BY <1>1, <1>2, <1>3, LimiterFrame

\* A step that counts an attempt has a reading that is not ahead of the clock and after
\* the delay.
LEMMA SpacedStep ==
    ASSUME TypeInv, LimiterHolds, ClocksHold, [Next]_vars, NEW k \in Keys, tries'[k].n > tries[k].n
    PROVE  /\ tries'[k].last <= now
           /\ tries[k].n > 0 => tries'[k].last >= tries[k].last + Delay(Counted(tries[k].n))
<1>0. \A q \in Keys : tries[q].n \in Nat
  BY DEF TypeInv, TypeOK
<1>1. ~UNCHANGED limiter
  BY <1>0 DEF limiter
<1>2. ASSUME NEW t \in Threads, At(t, "lock"), ~Blocked(t), Count(t)
      PROVE /\ tries'[k].last <= now
            /\ tries[k].n > 0 => tries'[k].last >= tries[k].last + Delay(Counted(tries[k].n))
  <2>1. PICK j \in Keys, stale \in SUBSET Keys : Attempt(j, th[t].clock, stale)
    BY <1>2, CountEffect
  <2>2. k = j
    BY <1>0, <2>1 DEF NoTries, Attempt
  <2>3. th[t].clock <= now
    BY DEF ClocksHold, Actors
  <2> QED BY <2>1, <2>2, <2>3 DEF Attempt
<1>3. ASSUME NEW t \in Threads, Drop(t) PROVE FALSE
  BY <1>0, <1>3 DEF Drop, NoTries, TypeInv, TypeOK
<1> QED BY <1>1, <1>2, <1>3, LimiterFrame

\* Attempts counted on one key came with readings of the clock that are the delay of
\* AttemptLimiter.reserve apart and never ahead of it, whatever threads make them, however
\* long they wait for the lock and whatever faults and crashes come between.
THEOREM Spaced == Spec => AttemptsAreSpaced
<1> DEFINE A == \A k \in Keys : tries'[k].n > tries[k].n =>
                  /\ tries'[k].last <= now
                  /\ tries[k].n > 0 => tries'[k].last >= tries[k].last + Delay(Counted(tries[k].n))
<1>1. TypeInv /\ LimiterHolds /\ ClocksHold /\ [Next]_vars => A
  BY SpacedStep
<1>2. TypeInv /\ LimiterHolds /\ ClocksHold /\ [Next]_vars => [A]_vars
  BY <1>1
<1>3. Spec => [](TypeInv /\ LimiterHolds /\ ClocksHold)
  BY TypeInit, TypeNext, LimiterInit, LimiterNext, ClocksNext, PTL DEF Spec
<1> QED BY <1>2, <1>3, PTL DEF Spec, AttemptsAreSpaced

(* ------------------------------- The homes ------------------------------- *)

\* The command works while the desktop is off, the threads while it is on, and each has
\* jobs of its own; the desktop has a credential.
Alone ==
    /\ ~At(Tool, "idle") => ~on
    /\ th[Tool].job \in {"none", "change", "remove", "provision"}
    /\ \A t \in Threads : ~At(t, "idle") => on
    /\ \A t \in Threads : th[t].job \in {"none", "verify", "update"}
    /\ on => cred # None /\ session \in Users

\* Nobody is at work at first.
LEMMA AloneInit == Init => Alone
BY DEF Init, Alone, At, Idle, Actors

\* A step of one actor.
Only(a) == \A b \in Actors \ {a} : th'[b] = th[b]

\* A request thread works while the desktop is on and leaves a credential.
LEMMA ThreadFrame ==
    ASSUME TypeInv, Alone, NEW t \in Threads, Thread(t)
    PROVE  on /\ on' = on /\ Only(t) /\ cred' # None /\ th'[t].job \in {"none", "verify", "update"}
<1>0. t \in Actors /\ th[t] \in Local /\ LocalOK(th[t]) /\ th[t].job \in {"none", "verify", "update"}
      /\ th \in [Actors -> Local] /\ (~At(t, "idle") => on) /\ (on => cred # None)
  BY DEF TypeInv, TypeOK, Actors, Alone
<1> USE DEF At, Only, Finish, Goto, Begin, Idle, Local
<1>1. CASE AuthRead(t) \/ ReadClock(t) \/ Reserve(t) \/ ReserveFails(t) \/ Check(t)
  BY <1>0, <1>1 DEF AuthRead, ReadClock, Reserve, ReserveFails, Check, account
<1>9. CASE Success(t) \/ SuccessFails(t)
  BY <1>0, <1>9 DEF Success, SuccessFails, account
<1>2. CASE Move(t) \/ MoveFails(t) \/ PublishRead(t) \/ MoveBack(t) \/ MoveBackFails(t)
  BY <1>0, <1>2 DEF Move, MoveFails, PublishRead, MoveBack, MoveBackFails, account, disk
<1>3. ASSUME NEW ok \in BOOLEAN, Migrate(t, ok) PROVE on /\ on' = on /\ Only(t) /\ cred' # None
        /\ th'[t].job \in {"none", "verify", "update"}
  <2>1. [th[t].seen EXCEPT !.old = FALSE] \in Credential
    BY <1>0, <1>3 DEF Migrate, LocalOK, Credential
  <2>2. cred' # None
    BY <1>0, <1>3, <2>1, NoneAssumption DEF Migrate, WriteCredential
  <2> QED BY <1>0, <1>3, <2>2 DEF Migrate
<1>4. ASSUME NEW ok \in BOOLEAN, Write(t, ok) PROVE on /\ on' = on /\ Only(t) /\ cred' # None
        /\ th'[t].job \in {"none", "verify", "update"}
  <2>1. Replacement(t) \in Credential
    BY <1>0, <1>4, ReplacementType DEF Write
  <2>2. cred' # None
    BY <1>0, <1>4, <2>1, NoneAssumption DEF Write, WriteCredential
  <2> QED BY <1>0, <1>4, <2>2 DEF Write
<1>5. ASSUME NEW ok \in BOOLEAN, Restore(t, ok) PROVE on /\ on' = on /\ Only(t) /\ cred' # None
        /\ th'[t].job \in {"none", "verify", "update"}
  <2>1. th[t].old # None
    BY <1>0, <1>5 DEF Restore, LocalOK
  <2>2. cred' # None
    BY <1>0, <1>5, <2>1 DEF Restore, WriteCredential
  <2> QED BY <1>0, <1>5, <2>2 DEF Restore
<1>6. ASSUME NEW ok \in BOOLEAN, Publish(t, ok) PROVE on /\ on' = on /\ Only(t) /\ cred' # None
        /\ th'[t].job \in {"none", "verify", "update"}
  BY <1>0, <1>6 DEF Publish
<1>7. ASSUME NEW p \in Passwords, Verify(t, p) PROVE on /\ on' = on /\ Only(t) /\ cred' # None
        /\ th'[t].job \in {"none", "verify", "update"}
  BY <1>0, <1>7 DEF Verify, account, disk
<1>8. ASSUME NEW p \in Passwords, NEW w \in Wish, Update(t, p, w)
      PROVE on /\ on' = on /\ Only(t) /\ cred' # None /\ th'[t].job \in {"none", "verify", "update"}
  BY <1>0, <1>8 DEF Update, account, disk
<1> QED BY <1>1, <1>2, <1>3, <1>4, <1>5, <1>6, <1>7, <1>8, <1>9 DEF Thread

\* A request thread publishes a user.
LEMMA SessionFrame ==
    ASSUME TypeInv, Alone, NEW t \in Threads, Thread(t), session \in Users
    PROVE  session' \in Users
<1>1. UNCHANGED session \/ \E ok \in BOOLEAN : Publish(t, ok)
  BY DEF Thread, AuthRead, ReadClock, Reserve, ReserveFails, Check, Success, SuccessFails, Move, MoveFails,
         PublishRead, MoveBack, MoveBackFails, Migrate, Write, Restore, Verify, Update, account, disk
<1>2. ASSUME NEW ok \in BOOLEAN, Publish(t, ok) PROVE session' \in Users
  <2>1. th[t] \in Local /\ LocalOK(th[t])
    BY DEF TypeInv, TypeOK, Actors
  <2>2. th[t].seen.user \in Users
    BY <1>2, <2>1 DEF Publish, At, Local, LocalOK, Credential
  <2> QED BY <1>2, <2>2 DEF Publish
<1> QED BY <1>1, <1>2

\* The command works while the desktop is off.
LEMMA CommandFrame ==
    ASSUME TypeInv, Alone, Command
    PROVE  /\ ~on /\ on' = on /\ Only(Tool)
           /\ th'[Tool].job \in {"none", "change", "remove", "provision"}
<1>0. Tool \in Actors /\ th[Tool] \in Local /\ th[Tool].job \in {"none", "change", "remove", "provision"}
      /\ th \in [Actors -> Local] /\ (~At(Tool, "idle") => ~on)
  BY DEF TypeInv, TypeOK, Actors, Alone
<1> USE DEF At, Only, Finish, Goto, Begin, Idle, Local, Offline
<1>7. ASSUME Finish(Tool), UNCHANGED on, ~At(Tool, "idle")
      PROVE ~on /\ on' = on /\ Only(Tool) /\ th'[Tool].job \in {"none", "change", "remove", "provision"}
  BY <1>0, <1>7
<1>1. CASE Move(Tool)
  BY <1>0, <1>1 DEF Move
<1>8. CASE MoveFails(Tool) \/ MoveBackFails(Tool) \/ ChangeBack
  BY <1>7, <1>8 DEF MoveFails, MoveBackFails, ChangeBack
<1>2. CASE Remove
  BY <1>0, <1>2 DEF Remove
<1>6. CASE Rmtree \/ RmtreeFails
  BY <1>0, <1>6 DEF Rmtree, RmtreeFails
<1>3. ASSUME NEW ok \in BOOLEAN, ProvisionWrite(ok) \/ ChangeWrite(ok) \/ SetAside(ok) \/ Unlink(ok)
      PROVE ~on /\ on' = on /\ Only(Tool) /\ th'[Tool].job \in {"none", "change", "remove", "provision"}
  BY <1>0, <1>3 DEF ProvisionWrite, ChangeWrite, SetAside, Unlink
<1>4. ASSUME NEW u \in Users, NEW p \in Passwords, Provision(u, p)
      PROVE ~on /\ on' = on /\ Only(Tool) /\ th'[Tool].job \in {"none", "change", "remove", "provision"}
  BY <1>0, <1>4 DEF Provision
<1>5. ASSUME NEW w \in Wish, Change(w)
      PROVE ~on /\ on' = on /\ Only(Tool) /\ th'[Tool].job \in {"none", "change", "remove", "provision"}
  BY <1>0, <1>5 DEF Change
<1> QED BY <1>1, <1>2, <1>3, <1>4, <1>5, <1>6, <1>8 DEF Command

\* Threads and the command never work at the same time.
LEMMA AloneNext == TypeInv /\ Alone /\ [Next]_vars => Alone'
<1> SUFFICES ASSUME TypeInv, Alone, [Next]_vars PROVE Alone'
  OBVIOUS
<1>0. Tool \notin Threads /\ Tool \in Actors /\ Threads \subseteq Actors
  BY AccountAssumption DEF Actors
<1>1. CASE UNCHANGED vars
  BY <1>1 DEF vars, account, Alone, At, disk
<1>2. CASE Command
  BY <1>0, <1>2, CommandFrame DEF Only, Alone, At
<1>3. ASSUME NEW t \in Threads, Thread(t) PROVE Alone'
  BY <1>0, <1>3, ThreadFrame, SessionFrame DEF Only, Alone, At
<1>4. CASE Login
  BY <1>4 DEF Login, Offline, Alone, At, TypeInv, TypeOK, Credential
<1>5. CASE Use \/ Writeback \/ Tick
  BY <1>5 DEF Use, Writeback, Tick, account, Alone, At, disk
<1>6. CASE Off
  BY <1>0, <1>6 DEF Off, account, Alone, At, disk
<1>7. CASE Crash
  BY <1>0, <1>7 DEF Crash, account, Alone, At, Idle, disk
<1> QED BY <1>1, <1>2, <1>3, <1>4, <1>5, <1>6, <1>7 DEF Next

\* While the command has the home elsewhere, its old name is free; the tree it removes is
\* that of an unlinked credential; only the command fills the quarantine.
HomesHold ==
    /\ th[Tool].moved \/ At(Tool, "unlink") => home[th[Tool].old.user] = "none"
    /\ At(Tool, "setaside") => home[Quarantine] = "none"
    /\ At(Tool, "rmtree") => removed
    /\ FilesNeverLost

Kept(h) == \E n \in Names : h[n] = "files"

\* The files are in a home at first.
LEMMA HomesInit == Init => HomesHold
BY DEF Init, HomesHold, FilesNeverLost, At, Idle, Actors, Names

\* A step that leaves the files and the command alone.
LEMMA HomesFrame ==
    ASSUME HomesHold, UNCHANGED <<home, drive, used, removed>>, th'[Tool] = th[Tool] \/ th'[Tool] = Idle
    PROVE  HomesHold'
BY DEF HomesHold, FilesNeverLost, At, Idle

\* A directory that has the files, synced or not, loses none.
LEMMA FilesStep ==
    ASSUME FilesNeverLost, NEW h, Kept(home) => Kept(h), home \in drive, Synced(h) \/ Cached(h),
           used' => used
    PROVE  FilesNeverLost'
BY DEF FilesNeverLost, Kept, Synced, Cached

\* A rename to a free name keeps the files.
LEMMA RenameKeeps ==
    ASSUME TypeInv, NEW from \in Names, NEW to \in Names, home[to] = "none", Kept(home)
    PROVE  Kept(Renamed(from, to))
<1>1. home \in [Names -> {"none", "empty", "files"}]
  BY DEF TypeInv, TypeOK, Homes
<1>2. PICK n \in Names : home[n] = "files"
  BY DEF Kept
<1>3. CASE n = from
  BY <1>1, <1>2, <1>3 DEF Renamed, Kept
<1>4. CASE n # from
  BY <1>1, <1>2, <1>4 DEF Renamed, Kept
<1> QED BY <1>3, <1>4

\* A thread's step: the command is idle, and only a rename, to a name that is free, touches
\* the homes.
LEMMA HomesThread ==
    ASSUME TypeInv, Alone, HomesHold, NEW t \in Threads, Thread(t)
    PROVE  HomesHold'
<1>0. Tool \in Actors \ {t} /\ t \in Actors /\ th[t] \in Local /\ LocalOK(th[t]) /\ home \in drive
  BY AccountAssumption DEF TypeInv, TypeOK, Actors
<1>1. th'[Tool] = th[Tool] /\ At(Tool, "idle")
  BY <1>0, ThreadFrame DEF Only, Alone
<1>2. th[Tool] \in Local /\ LocalOK(th[Tool]) /\ t # Tool
  BY <1>0 DEF TypeInv, TypeOK
<1>3. ASSUME NEW from \in Users, NEW to \in Users, Movable(from, to), Cached(Renamed(from, to)),
             UNCHANGED <<used, removed>>
      PROVE HomesHold'
  <2>1. Kept(home) => Kept(Renamed(from, to))
    BY <1>3, RenameKeeps DEF Movable, Names
  <2>2. FilesNeverLost'
    BY <1>0, <1>3, <2>1, FilesStep DEF HomesHold
  <2> QED BY <1>1, <1>2, <2>2 DEF HomesHold, At, LocalOK
<1>4. CASE Move(t)
  <2>1. th[t].old.user \in Users /\ th[t].want.user \in Users
    BY <1>0, <1>4 DEF Move, At, Local, LocalOK, Credential, Wish
  <2>2. UNCHANGED <<used, removed>>
    BY <1>4 DEF Move, history
  <2>3. \/ UNCHANGED disk
        \/ /\ Movable(th[t].old.user, th[t].want.user)
           /\ Cached(Renamed(th[t].old.user, th[t].want.user))
    BY <1>2, <1>4 DEF Move, Rename
  <2> QED BY <1>1, <1>3, <2>1, <2>2, <2>3, HomesFrame DEF disk
<1>5. CASE MoveBack(t)
  <2>1. th[t].old.user \in Users /\ th[t].want.user \in Users
    BY <1>0, <1>5 DEF MoveBack, At, Local, LocalOK, Credential, Wish
  <2>2. UNCHANGED <<used, removed>>
    BY <1>5 DEF MoveBack, history
  <2>3. \/ UNCHANGED disk
        \/ /\ Movable(th[t].want.user, th[t].old.user)
           /\ Cached(Renamed(th[t].want.user, th[t].old.user))
    BY <1>5 DEF MoveBack, RenameBack
  <2> QED BY <1>1, <1>3, <2>1, <2>2, <2>3, HomesFrame DEF disk
<1>6. CASE UNCHANGED <<home, drive, used, removed>>
  BY <1>1, <1>6, HomesFrame
<1>7. Move(t) \/ MoveBack(t) \/ UNCHANGED <<home, drive, used, removed>>
  BY <1>2 DEF Thread, AuthRead, ReadClock, Reserve, ReserveFails, Check, Success, SuccessFails, MoveFails,
         PublishRead, MoveBackFails, Migrate, Write, Publish, Restore, Verify, Update, account, history, disk
<1> QED BY <1>4, <1>5, <1>6, <1>7

\* The command loses no files before it unlinks the credential.
LEMMA HomesCommand ==
    ASSUME TypeInv, HomesHold, Command
    PROVE  HomesHold'
<1>0. /\ Tool \in Actors /\ th[Tool] \in Local /\ LocalOK(th[Tool]) /\ th \in [Actors -> Local]
      /\ home \in [Names -> {"none", "empty", "files"}] /\ home \in drive
      /\ Users \subseteq Names /\ Quarantine \in Names /\ Quarantine \notin Users
  BY AccountAssumption DEF TypeInv, TypeOK, Actors, Homes, Names
<1>1. ASSUME Finish(Tool) PROVE th'[Tool] = Idle
  BY <1>0, <1>1 DEF Finish
\* A command that ends with the home renamed to a free name, or left alone.
<1>2. ASSUME Finish(Tool), UNCHANGED <<used, removed>>, NEW from \in Names, NEW to \in Names,
             \/ UNCHANGED disk
             \/ home[to] = "none" /\ (Synced(Renamed(from, to)) \/ Cached(Renamed(from, to)))
      PROVE HomesHold'
  <2>1. CASE UNCHANGED disk
    BY <1>1, <1>2, <2>1, HomesFrame DEF disk
  <2>2. CASE home[to] = "none" /\ (Synced(Renamed(from, to)) \/ Cached(Renamed(from, to)))
    <3>1. Kept(home) => Kept(Renamed(from, to))
      BY <2>2, RenameKeeps
    <3>2. FilesNeverLost'
      BY <1>0, <1>2, <2>2, <3>1, FilesStep DEF HomesHold
    <3> QED BY <1>1, <1>2, <3>2 DEF HomesHold, At, Idle
  <2> QED BY <1>2, <2>1, <2>2
<1>3. ASSUME NEW u \in Users, NEW p \in Passwords, Provision(u, p) PROVE HomesHold'
  <2>1. th'[Tool].moved = FALSE /\ th'[Tool].pc = "write"
    BY <1>0, <1>3 DEF Provision, Begin, Idle
  <2> DEFINE h == [home EXCEPT ![u] = IF @ = "none" THEN "empty" ELSE @]
  <2>2. Kept(home) => Kept(h)
    BY <1>0 DEF Kept
  <2>3. Cached(h) /\ UNCHANGED used
    BY <1>3 DEF Provision, history
  <2>4. FilesNeverLost'
    <3> HIDE DEF h
    <3> QED BY <1>0, <2>2, <2>3, FilesStep DEF HomesHold
  <2> QED BY <2>1, <2>4 DEF HomesHold, At
<1>4. ASSUME NEW w \in Wish, Change(w) PROVE HomesHold'
  <2>1. th'[Tool].moved = FALSE /\ th'[Tool].pc \in {"move", "write"}
    BY <1>0, <1>4 DEF Change, Begin, Idle
  <2>2. FilesNeverLost'
    BY <1>4 DEF Change, HomesHold, FilesNeverLost, account, history, disk
  <2> QED BY <2>1, <2>2 DEF HomesHold, At
<1>5. CASE Move(Tool)
  <2> DEFINE from == th[Tool].old.user  to == th[Tool].want.user
  <2>1. from \in Users /\ to \in Users
    BY <1>0, <1>5 DEF Move, At, Local, LocalOK, Credential, Wish
  <2>2. CASE Finish(Tool) /\ UNCHANGED disk
    BY <1>1, <1>5, <2>2, HomesFrame DEF Move, history, disk
  <2>3. CASE Movable(from, to) /\ Synced(Renamed(from, to)) /\ th' = [th EXCEPT ![Tool].pc = "write", ![Tool].moved = TRUE]
    <3>1. from # to /\ home'[from] = "none"
      BY <1>0, <2>1, <2>3 DEF Renamed, Movable, Synced
    <3>2. th'[Tool].old = th[Tool].old /\ th'[Tool].pc = "write"
      BY <1>0, <2>3 DEF Local
    <3>3. Kept(home) => Kept(Renamed(from, to))
      BY <1>0, <2>1, <2>3, RenameKeeps DEF Movable
    <3>4. UNCHANGED used
      BY <1>5 DEF Move, history
    <3>5. FilesNeverLost'
      BY <1>0, <2>3, <3>3, <3>4, FilesStep DEF HomesHold
    <3> QED BY <3>1, <3>2, <3>5 DEF HomesHold, At
  <2> QED BY <1>5, <2>2, <2>3 DEF Move, Rename
<1>6. CASE ChangeBack \/ MoveBackFails(Tool)
  <2>1. th[Tool].want.user \in Users /\ th[Tool].old.user \in Users
    BY <1>0, <1>6 DEF ChangeBack, MoveBackFails, At, Local, LocalOK, Credential, Wish
  <2>2. th[Tool].moved => home[th[Tool].old.user] = "none"
    BY DEF HomesHold
  <2>3. Finish(Tool) /\ UNCHANGED <<used, removed>>
    BY <1>6 DEF ChangeBack, MoveBackFails
  <2>4. \/ UNCHANGED disk
        \/ th[Tool].moved /\ (Synced(RenameBack(Tool)) \/ Cached(RenameBack(Tool)))
    BY <1>6 DEF ChangeBack, MoveBackFails
  <2> QED BY <1>0, <1>2, <2>1, <2>2, <2>3, <2>4 DEF RenameBack
<1>7. ASSUME NEW ok \in BOOLEAN, ProvisionWrite(ok) PROVE HomesHold'
  <2>1. FilesNeverLost'
    BY <1>7 DEF ProvisionWrite, HomesHold, FilesNeverLost, disk
  <2> QED BY <1>1, <1>7, <2>1 DEF ProvisionWrite, HomesHold, At, Idle
<1>8. ASSUME NEW ok \in BOOLEAN, ChangeWrite(ok) PROVE HomesHold'
  <2>1. th'[Tool] = Idle \/ (th'[Tool].old = th[Tool].old /\ th'[Tool].moved = th[Tool].moved
                                /\ th'[Tool].pc = "moveback")
    BY <1>0, <1>1, <1>8 DEF ChangeWrite, Goto, Local
  <2>2. FilesNeverLost' /\ home' = home
    BY <1>8 DEF ChangeWrite, HomesHold, FilesNeverLost, history, disk
  <2> QED BY <2>1, <2>2 DEF HomesHold, At, Idle
<1>9. ASSUME NEW ok \in BOOLEAN, Unlink(ok) PROVE HomesHold'
  <2>1. th[Tool].old.user \in Users /\ ~th[Tool].moved /\ home[th[Tool].old.user] = "none"
    BY <1>0, <1>9 DEF Unlink, At, Local, LocalOK, Credential, HomesHold
  <2>2. CASE ok
    <3>1. th'[Tool].moved = th[Tool].moved /\ th'[Tool].pc = "rmtree"
      BY <1>0, <1>9, <2>2 DEF Unlink, Goto, Local
    <3>2. FilesNeverLost' /\ removed'
      BY <1>9, <2>2 DEF Unlink, HomesHold, FilesNeverLost, disk
    <3> QED BY <2>1, <3>1, <3>2 DEF HomesHold, At
  <2>3. CASE ~ok
    <3>1. Finish(Tool) /\ UNCHANGED <<used, removed>>
      BY <1>9, <2>3 DEF Unlink
    <3>2. \/ UNCHANGED disk
          \/ Synced(Renamed(Quarantine, th[Tool].old.user))
          \/ Cached(Renamed(Quarantine, th[Tool].old.user))
      BY <1>9, <2>3 DEF Unlink
    <3> QED BY <1>0, <1>2, <2>1, <3>1, <3>2
  <2> QED BY <2>2, <2>3
<1>10. CASE Remove
  <2>1. th'[Tool].moved = FALSE /\ th'[Tool].pc = "setaside"
    BY <1>0, <1>10 DEF Remove, Begin, Idle
  <2>2. FilesNeverLost' /\ home'[Quarantine] = "none"
    BY <1>10 DEF Remove, Movable, HomesHold, FilesNeverLost, account, history, disk
  <2> QED BY <2>1, <2>2 DEF HomesHold, At
<1>13. ASSUME NEW ok \in BOOLEAN, SetAside(ok) PROVE HomesHold'
  <2>1. th[Tool].old.user \in Users /\ ~th[Tool].moved /\ home[Quarantine] = "none"
    BY <1>0, <1>13 DEF SetAside, At, Local, LocalOK, Credential, HomesHold
  <2> DEFINE h == Renamed(th[Tool].old.user, Quarantine)
  <2>2. UNCHANGED <<used, removed>>
    BY <1>13 DEF SetAside
  <2>3. CASE ok
    <3>1. /\ th'[Tool].moved = th[Tool].moved /\ th'[Tool].pc = "unlink" /\ th'[Tool].old = th[Tool].old
          /\ Synced(h)
      BY <1>0, <1>13, <2>3 DEF SetAside, Goto, Local
    <3>2. home'[th[Tool].old.user] = "none"
      BY <1>0, <2>1, <3>1 DEF Synced, Renamed
    <3>3. Kept(home) => Kept(h)
      BY <1>0, <2>1, RenameKeeps
    <3>4. FilesNeverLost'
      BY <1>0, <2>2, <3>1, <3>3, FilesStep DEF HomesHold
    <3> QED BY <2>1, <3>1, <3>2, <3>4 DEF HomesHold, At
  <2>4. CASE ~ok
    <3>1. Finish(Tool) /\ Cached(h)
      BY <1>13, <2>4 DEF SetAside
    <3> QED BY <1>0, <1>2, <2>1, <2>2, <3>1
  <2> QED BY <2>3, <2>4
<1>11. CASE Rmtree
  <2>1. FilesNeverLost'
    BY <1>11 DEF Rmtree, HomesHold, FilesNeverLost
  <2> QED BY <1>1, <1>11, <2>1 DEF Rmtree, HomesHold, At, Idle
<1>12. CASE RmtreeFails
  BY <1>1, <1>12, HomesFrame DEF RmtreeFails, account, history, disk
<1>14. CASE MoveFails(Tool)
  <2>1. th[Tool].want.user \in Users /\ th[Tool].old.user \in Users
    BY <1>0, <1>14 DEF MoveFails, At, Local, LocalOK, Credential, Wish
  <2>2. Finish(Tool) /\ UNCHANGED <<used, removed>>
    BY <1>14 DEF MoveFails
  <2>3. UNCHANGED disk \/ (home[th[Tool].want.user] = "none" /\ Cached(Renamed(th[Tool].old.user, th[Tool].want.user)))
    BY <1>14 DEF MoveFails, Movable, Rename
  <2> QED BY <1>0, <1>2, <2>1, <2>2, <2>3
<1> QED BY <1>3, <1>4, <1>5, <1>6, <1>7, <1>8, <1>9, <1>10, <1>11, <1>12, <1>13, <1>14 DEF Command

\* No step loses files.
LEMMA HomesNext == TypeInv /\ Alone /\ HomesHold /\ [Next]_vars => HomesHold'
<1> SUFFICES ASSUME TypeInv, Alone, HomesHold, [Next]_vars PROVE HomesHold'
  OBVIOUS
<1>0. home \in [Names -> {"none", "empty", "files"}] /\ home \in drive
  BY DEF TypeInv, TypeOK, Homes
<1>1. CASE UNCHANGED vars
  BY <1>1, HomesFrame DEF vars, account, history, disk
<1>2. CASE Login
  BY <1>2, HomesFrame DEF Login, history, disk
<1>3. CASE Use
  <2>1. session \in Names
    BY <1>3 DEF Use, Alone, Names
  <2>2. FilesNeverLost'
    BY <1>0, <1>3, <2>1 DEF Use, Synced, FilesNeverLost
  <2>3. th[Tool] \in Local /\ LocalOK(th[Tool]) /\ At(Tool, "idle")
    BY <1>3 DEF TypeInv, TypeOK, Actors, Alone, Use
  <2> QED BY <1>3, <2>2, <2>3 DEF Use, HomesHold, At, LocalOK
<1>4. CASE Tick
  BY <1>4, HomesFrame DEF Tick, account, history, disk
<1>6. CASE Writeback \/ Off
  <2>1. Synced(home) /\ UNCHANGED <<th, used, removed>>
    BY <1>6 DEF Writeback, Off, history
  <2>2. FilesNeverLost'
    BY <1>0, <2>1, FilesStep DEF HomesHold
  <2> QED BY <2>1, <2>2 DEF HomesHold, Synced, At
<1>5. CASE Crash
  <2>1. th'[Tool] = Idle
    BY <1>5 DEF Crash, Actors
  <2>2. FilesNeverLost'
    BY <1>5 DEF Crash, Synced, HomesHold, FilesNeverLost
  <2> QED BY <2>1, <2>2 DEF HomesHold, At, Idle
<1> QED BY <1>1, <1>2, <1>3, <1>4, <1>5, <1>6, HomesThread, HomesCommand DEF Next

\* A used home's files are in a home or in the quarantine, in whatever the drive may hold of
\* them, until remove_user, with the credential unlinked, removes them.
THEOREM FilesSafe == Spec => []FilesNeverLost
<1>1. HomesHold => FilesNeverLost
  BY DEF HomesHold
<1> QED BY <1>1, TypeInit, TypeNext, AloneInit, AloneNext, HomesInit, HomesNext, PTL DEF Spec

(* ------------------- The credential, the home, the session ------------------- *)

Named ==
    cred # None => home[cred.user] # "none" /\ (on => session = cred.user)

\* How far an update is: which name the credential has, and where the home is.
UpdateOK(t) ==
    LET l == th[t]  o == l.old.user  w == l.want.user IN
    /\ l.pc \in {"auth", "reserve", "lock", "check", "success", "move"} =>
          ~l.moved /\ cred.user = o /\ session = o /\ home[o] # "none"
    /\ l.pc = "move" => w # o
    /\ l.pc = "write" => cred.user = o /\ session = o
    /\ l.pc \in {"publish", "publishing"} => cred.user = w
    /\ l.pc = "publishing" => l.seen.user = w
    /\ l.pc = "restore" => cred.user \in {o, w}
    /\ l.pc \in {"moveback", "republish", "republishing"} => cred.user = o
    /\ l.pc = "republishing" => l.seen.user = o
    /\ l.pc \in {"write", "publish", "publishing", "restore", "moveback"} =>
          /\ home[w] # "none"
          /\ IF l.moved THEN w # o /\ home[o] = "none" ELSE w = o
    /\ l.pc \in {"republish", "republishing"} => home[o] # "none"

\* The same of the command.
CommandOK ==
    LET l == th[Tool]  o == l.old.user  w == l.want.user IN
    /\ l.job = "provision" => home[w] # "none" /\ Named
    /\ l.job = "change" => cred # None
    /\ l.pc = "move" => cred = l.old /\ home[o] # "none" /\ w # o /\ ~l.moved
    /\ l.job = "change" /\ l.pc = "write" => cred = l.old
    /\ l.pc = "moveback" => cred.user \in {o, w}
    /\ l.job = "change" /\ l.pc \in {"write", "moveback"} => home[w] # "none" /\ (~l.moved => w = o)
    /\ l.pc = "setaside" => cred = l.old /\ home[o] # "none"
    /\ l.pc = "unlink" => cred = l.old /\ home[Quarantine] # "none"
    /\ l.pc = "rmtree" => cred = None

\* With no update cut, left half undone or overlapped, there is at most one, which is as
\* far as it says; without any, the credential's user has a home and is published.
CredentialHolds ==
    ~halfdone =>
        /\ \A t, u \in Threads : th[t].job = "update" /\ th[u].job = "update" => t = u
        /\ \A t \in Threads : th[t].job = "update" => UpdateOK(t)
        /\ CommandOK
        /\ Quiet => Named

\* At first credential, home and session are in step.
LEMMA CredentialInit == Init => CredentialHolds
<1> SUFFICES ASSUME Init PROVE CredentialHolds
  OBVIOUS
<1>1. \A a \in Actors : th[a] = Idle
  BY DEF Init
<1>2. Named
  <2>1. CASE cred = None
    BY <2>1 DEF Named
  <2>2. ASSUME NEW u \in Users, NEW p \in Passwords,
               cred = [user |-> u, pw |-> p, old |-> TRUE],
               home = [v \in Names |-> IF v = u THEN "files" ELSE "none"]
        PROVE Named
    BY <2>2 DEF Named, Init, Names
  <2> QED BY <2>1, <2>2 DEF Init
<1> QED BY <1>1, <1>2 DEF CredentialHolds, CommandOK, Idle, Actors

\* While the desktop is on, the command is idle.
LEMMA CommandIdle ==
    ASSUME TypeInv, Alone, on
    PROVE  th[Tool].job = "none" /\ th[Tool].pc = "idle"
<1>1. th[Tool] \in Local /\ LocalOK(th[Tool]) /\ th[Tool].pc = "idle"
  BY DEF TypeInv, TypeOK, Actors, Alone, At
<1> QED BY <1>1 DEF LocalOK

\* A thread's step that is no update's and keeps the credential's name, homes and session.
LEMMA OtherStep ==
    ASSUME TypeInv, TypeInv', Alone, Alone', CredentialHolds, ~halfdone, NEW t \in Threads, Thread(t),
           th[t].job # "update", th'[t].job # "update",
           UNCHANGED <<home, session>>, cred'.user = cred.user
    PROVE  CredentialHolds'
<1>1. on /\ on' = on /\ Only(t) /\ cred # None
  BY ThreadFrame DEF Alone
<1>2. t \in Actors /\ Threads \subseteq Actors
  BY DEF Actors
<1>3. CommandOK'
  <2>1. th'[Tool] = th[Tool] /\ th[Tool].job = "none" /\ th[Tool].pc = "idle"
    BY <1>1, CommandIdle, AccountAssumption DEF Only, Actors
  <2> QED BY <2>1 DEF CommandOK
<1>4. ASSUME NEW u \in Threads, th'[u].job = "update"
      PROVE UpdateOK(u)' /\ th[u].job = "update"
  <2>1. th'[u] = th[u] /\ th[u].job = "update" /\ UpdateOK(u)
    BY <1>1, <1>2, <1>4 DEF Only, CredentialHolds
  <2> QED BY <2>1 DEF UpdateOK
<1>5. ASSUME Quiet' PROVE Named'
  <2>1. th[t].job \in {"none", "verify"}
    BY DEF Alone
  <2>2. Quiet
    BY <1>1, <1>2, <1>5, <2>1 DEF Quiet, Only
  <2> QED BY <1>1, <2>2 DEF CredentialHolds, Named
<1> QED BY <1>3, <1>4, <1>5 DEF CredentialHolds

\* A step of an update: it is as far as it says afterwards, or over and the names agree.
LEMMA UpdateStep ==
    ASSUME TypeInv, TypeInv', Alone, Alone', CredentialHolds, ~halfdone, NEW t \in Threads, Thread(t),
           \A u \in Threads \ {t} : th[u].job # "update",
           IF th'[t].job = "update" THEN UpdateOK(t)' ELSE Named'
    PROVE  CredentialHolds'
<1>1. on /\ on' = on /\ Only(t)
  BY ThreadFrame
<1>2. t \in Actors /\ Threads \subseteq Actors
  BY DEF Actors
<1>3. CommandOK'
  <2>1. th'[Tool] = th[Tool] /\ th[Tool].job = "none" /\ th[Tool].pc = "idle"
    BY <1>1, CommandIdle, AccountAssumption DEF Only, Actors
  <2> QED BY <2>1 DEF CommandOK
<1>4. ASSUME NEW u \in Threads, th'[u].job = "update" PROVE u = t
  BY <1>1, <1>2, <1>4 DEF Only
<1>5. ASSUME Quiet' PROVE Named'
  BY <1>2, <1>5 DEF Quiet
<1> QED BY <1>3, <1>4, <1>5 DEF CredentialHolds

\* The steps of an update that is not disturbed.
LEMMA CredentialUpdate ==
    ASSUME TypeInv, TypeInv', Alone, Alone', CredentialHolds, ~halfdone, ~halfdone', NEW t \in Threads,
           Thread(t), th[t].job = "update"
    PROVE  CredentialHolds'
<1>0. /\ t \in Actors /\ th \in [Actors -> Local] /\ th[t] \in Local /\ LocalOK(th[t])
      /\ home \in [Names -> {"none", "empty", "files"}]
      /\ th[t].old \in Credential /\ th[t].want \in Wish
      /\ th[t].old.user \in Users /\ th[t].want.user \in Users
      /\ t # Tool /\ Users \subseteq Names
  BY AccountAssumption DEF TypeInv, TypeOK, Actors, Local, LocalOK, Credential, Wish, Homes, Names
<1>1. UpdateOK(t) /\ \A u \in Threads \ {t} : th[u].job # "update"
  BY DEF CredentialHolds
<1>2. on /\ on' = on /\ cred # None
  BY ThreadFrame DEF Alone
<1> SUFFICES IF th'[t].job = "update" THEN UpdateOK(t)' ELSE Named'
  BY <1>1, UpdateStep
<1>3. ASSUME Finish(t) PROVE th'[t].job # "update"
  BY <1>0, <1>3 DEF Finish, Idle
<1>4. ASSUME NEW pc, Goto(t, pc)
      PROVE /\ th'[t].pc = pc /\ th'[t].job = "update" /\ th'[t].old = th[t].old
            /\ th'[t].want = th[t].want /\ th'[t].moved = th[t].moved /\ th'[t].seen = th[t].seen
  BY <1>0, <1>4 DEF Goto, Local
<1> USE DEF At
<1>5. CASE AuthRead(t)
  <2>1. /\ th'[t].pc = "reserve" /\ th'[t].job = "update" /\ th'[t].old = th[t].old
        /\ th'[t].want = th[t].want /\ th'[t].moved = th[t].moved
    BY <1>0, <1>2, <1>5 DEF AuthRead, Local
  <2> QED BY <1>1, <1>5, <2>1 DEF AuthRead, UpdateOK, account, disk
<1>16. CASE ReadClock(t)
  <2>1. /\ th'[t].pc = "lock" /\ th'[t].job = "update" /\ th'[t].old = th[t].old
        /\ th'[t].want = th[t].want /\ th'[t].moved = th[t].moved
    BY <1>0, <1>16 DEF ReadClock, Local
  <2> QED BY <1>1, <1>16, <2>1 DEF ReadClock, UpdateOK, account, disk
<1>17. CASE Reserve(t)
  <2>1. UNCHANGED <<cred, home, session>> /\ th[t].pc = "lock"
    BY <1>17 DEF Reserve, account, disk
  <2>2. CASE Finish(t)
    BY <1>1, <1>2, <1>3, <2>1, <2>2 DEF UpdateOK, Named
  <2>3. CASE th' = [th EXCEPT ![t].pc = "check", ![t].clock = 0]
    <3>1. /\ th'[t].pc = "check" /\ th'[t].job = "update" /\ th'[t].old = th[t].old
          /\ th'[t].want = th[t].want /\ th'[t].moved = th[t].moved
      BY <1>0, <2>3 DEF Local
    <3> QED BY <1>1, <2>1, <3>1 DEF UpdateOK
  <2> QED BY <1>17, <2>2, <2>3 DEF Reserve
<1>6. CASE ReserveFails(t) \/ Check(t) \/ SuccessFails(t)
  <2>1. /\ Finish(t) \/ Goto(t, "success")
        /\ UNCHANGED <<cred, home, session>>
        /\ th[t].pc \in {"lock", "check", "success"}
    BY <1>6 DEF ReserveFails, Check, SuccessFails, account, disk
  <2>2. CASE Finish(t)
    BY <1>1, <1>2, <1>3, <2>1, <2>2 DEF UpdateOK, Named
  <2>3. CASE Goto(t, "success")
    BY <1>1, <1>4, <2>1, <2>3 DEF UpdateOK
  <2> QED BY <2>1, <2>2, <2>3
<1>7. CASE Success(t)
  <2>1. UNCHANGED <<cred, home, session>> /\ th[t].pc = "success"
    BY <1>7 DEF Success, account, disk
  <2>2. CASE th[t].want.user # th[t].old.user
    <3>1. Goto(t, "move")
      BY <1>7, <2>2 DEF Success
    <3> QED BY <1>1, <1>4, <2>1, <2>2, <3>1 DEF UpdateOK
  <2>3. CASE th[t].want.user = th[t].old.user
    <3>1. Goto(t, "write")
      BY <1>7, <2>3 DEF Success
    <3> QED BY <1>1, <1>4, <2>1, <2>3, <3>1 DEF UpdateOK
  <2> QED BY <2>2, <2>3
<1>8. CASE Move(t)
  <2>1. UNCHANGED <<cred, session>> /\ th[t].pc = "move"
    BY <1>8 DEF Move
  <2>2. CASE Finish(t) /\ UNCHANGED disk
    BY <1>1, <1>2, <1>3, <2>1, <2>2 DEF UpdateOK, Named, disk
  <2>3. CASE ~(Finish(t) /\ UNCHANGED disk)
    <3>1. /\ home' = Renamed(th[t].old.user, th[t].want.user)
          /\ th' = [th EXCEPT ![t].pc = "write", ![t].moved = TRUE]
      BY <1>0, <1>8, <2>3 DEF Move, Rename, Cached
    <3>2. /\ th'[t].pc = "write" /\ th'[t].job = "update" /\ th'[t].old = th[t].old
          /\ th'[t].want = th[t].want /\ th'[t].moved
      BY <1>0, <3>1 DEF Local
    <3>3. th[t].want.user # th[t].old.user /\ home[th[t].old.user] # "none"
          /\ cred.user = th[t].old.user /\ session = th[t].old.user
      BY <1>1, <2>1 DEF UpdateOK
    <3>4. home'[th[t].old.user] = "none" /\ home'[th[t].want.user] # "none"
      BY <1>0, <3>1, <3>3 DEF Renamed
    <3> QED BY <2>1, <3>2, <3>3, <3>4 DEF UpdateOK
  <2> QED BY <2>2, <2>3
<1>9. CASE MoveFails(t)
  <2>1. UNCHANGED <<cred, home, session>> /\ Finish(t) /\ th[t].pc = "move"
    BY <1>0, <1>9 DEF MoveFails, disk
  <2> QED BY <1>1, <1>2, <1>3, <2>1 DEF UpdateOK, Named
<1>10. CASE PublishRead(t)
  <2>1. /\ th[t].pc \in {"publish", "republish"}
        /\ th'[t].pc = (IF th[t].pc = "publish" THEN "publishing" ELSE "republishing")
        /\ th'[t].seen = cred /\ th'[t].job = "update" /\ th'[t].old = th[t].old
        /\ th'[t].want = th[t].want /\ th'[t].moved = th[t].moved
    BY <1>0, <1>10 DEF PublishRead, Local
  <2>2. UNCHANGED <<cred, home, session>>
    BY <1>10 DEF PublishRead, account, disk
  <2> QED BY <1>1, <2>1, <2>2 DEF UpdateOK
<1>11. CASE MoveBack(t)
  <2>1. UNCHANGED <<cred, session>> /\ th[t].pc = "moveback" /\ Goto(t, "republish")
    BY <1>11 DEF MoveBack
  <2>2. cred.user = th[t].old.user
    BY <1>1, <2>1 DEF UpdateOK
  <2>3. home'[th[t].old.user] # "none"
    <3>1. CASE th[t].moved
      <4>1. home[th[t].want.user] # "none" /\ home[th[t].old.user] = "none"
        BY <1>1, <2>1, <3>1 DEF UpdateOK
      <4>2. home' = Renamed(th[t].want.user, th[t].old.user)
        BY <1>11, <3>1, <4>1 DEF MoveBack, Movable, RenameBack, Cached
      <4> QED BY <1>0, <4>1, <4>2 DEF Renamed
    <3>2. CASE ~th[t].moved
      BY <1>1, <1>11, <2>1, <3>2 DEF MoveBack, UpdateOK, disk
    <3> QED BY <3>1, <3>2
  <2> QED BY <1>4, <2>1, <2>2, <2>3 DEF UpdateOK
<1>12. ASSUME NEW ok \in BOOLEAN, Write(t, ok)
       PROVE IF th'[t].job = "update" THEN UpdateOK(t)' ELSE Named'
  <2>1. UNCHANGED <<home, session>> /\ th[t].pc = "write" /\ cred.user = th[t].old.user
    BY <1>1, <1>12 DEF Write, UpdateOK, disk
  <2>2. Replacement(t).user = th[t].want.user
    BY DEF Replacement
  <2>3. CASE ok
    <3>1. Goto(t, "publish") /\ cred'.user = th[t].want.user
      BY <1>12, <2>2, <2>3 DEF Write, WriteCredential
    <3> QED BY <1>1, <1>4, <2>1, <3>1 DEF UpdateOK
  <2>4. CASE ~ok
    <3>1. Goto(t, "restore") /\ cred'.user \in {th[t].old.user, th[t].want.user}
      BY <1>12, <2>1, <2>2, <2>4 DEF Write, WriteCredential
    <3> QED BY <1>1, <1>4, <2>1, <3>1 DEF UpdateOK
  <2> QED BY <2>3, <2>4
<1>13. ASSUME NEW ok \in BOOLEAN, Publish(t, ok)
       PROVE IF th'[t].job = "update" THEN UpdateOK(t)' ELSE Named'
  <2>1. UNCHANGED <<cred, home>> /\ th[t].pc \in {"publishing", "republishing"}
        /\ (th[t].pc = "republishing" => ok)
    BY <1>13 DEF Publish, disk
  <2>2. CASE ok
    <3>1. Finish(t) /\ session' = th[t].seen.user
      BY <1>13, <2>2 DEF Publish
    <3> QED BY <1>1, <1>2, <1>3, <2>1, <3>1 DEF UpdateOK, Named
  <2>3. CASE ~ok
    <3>1. Goto(t, "restore") /\ th[t].pc = "publishing"
      BY <1>13, <2>1, <2>3 DEF Publish
    <3> QED BY <1>1, <1>4, <2>1, <3>1 DEF UpdateOK
  <2> QED BY <2>2, <2>3
<1>14. ASSUME NEW ok \in BOOLEAN, Restore(t, ok)
       PROVE IF th'[t].job = "update" THEN UpdateOK(t)' ELSE Named'
  <2>1. ok /\ UNCHANGED <<home, session>> /\ th[t].pc = "restore" /\ cred' = th[t].old /\ Goto(t, "moveback")
    BY <1>14 DEF Restore, WriteCredential, disk
  <2> QED BY <1>1, <1>4, <2>1 DEF UpdateOK
<1>15. th[t].pc \notin {"idle", "migrate"} /\ ~MoveBackFails(t)
  BY <1>0 DEF LocalOK, MoveBackFails
<1> QED
  BY <1>5, <1>6, <1>7, <1>8, <1>9, <1>10, <1>11, <1>12, <1>13, <1>14, <1>15, <1>16, <1>17
  DEF Thread, Verify, Update, Migrate

\* The steps of other threads, and the beginning of an update.
LEMMA CredentialThread ==
    ASSUME TypeInv, TypeInv', Alone, Alone', CredentialHolds, ~halfdone, ~halfdone', NEW t \in Threads, Thread(t)
    PROVE  CredentialHolds'
<1>0. /\ t \in Actors /\ th \in [Actors -> Local] /\ th[t] \in Local /\ LocalOK(th[t])
      /\ on /\ cred # None /\ cred \in Credential
  BY ThreadFrame DEF TypeInv, TypeOK, Actors, Alone
<1>1. CASE th[t].job = "update"
  BY <1>1, CredentialUpdate
<1>2. ASSUME th[t].job # "update", NEW p \in Passwords, NEW w \in Wish, Update(t, p, w) PROVE CredentialHolds'
  <2>1. \A u \in Threads : th[u].job # "update"
    BY <1>2 DEF Update
  <2>2. Quiet
    <3>1. \A u \in Threads : th[u].job \in {"none", "verify"}
      BY <2>1 DEF Alone
    <3> QED BY <1>0, <3>1, CommandIdle DEF Quiet, Actors
  <2>3. home[cred.user] # "none" /\ session = cred.user
    BY <1>0, <2>2 DEF CredentialHolds, Named
  <2>4. /\ th'[t].pc = (IF w.user # cred.user \/ w.pw # None THEN "auth" ELSE "write")
        /\ th'[t].job = "update" /\ th'[t].old = cred /\ th'[t].want = w /\ ~th'[t].moved
    BY <1>0, <1>2 DEF Update, Begin, Idle
  <2>5. UNCHANGED <<cred, home, session>>
    BY <1>2 DEF Update, account, disk
  <2>6. UpdateOK(t)'
    BY <2>3, <2>4, <2>5 DEF UpdateOK
  <2> QED BY <2>1, <2>4, <2>6, UpdateStep
<1>3. ASSUME th[t].job # "update", NEW p \in Passwords, Verify(t, p) PROVE CredentialHolds'
  <2>1. th'[t].job = "verify"
    BY <1>0, <1>3 DEF Verify, Begin, Idle
  <2> QED BY <1>3, <2>1, OtherStep DEF Verify, account, disk
<1>4. ASSUME th[t].job # "update", NEW ok \in BOOLEAN, Migrate(t, ok) PROVE CredentialHolds'
  <2>1. th'[t].job = "none"
    BY <1>0, <1>4 DEF Migrate, Finish, Idle
  <2>2. cred = th[t].seen /\ cred' \in {cred, [cred EXCEPT !.old = FALSE]}
    BY <1>4 DEF Migrate, WriteCredential
  <2>3. cred'.user = cred.user
    BY <1>0, <2>2 DEF Credential
  <2> QED BY <1>4, <2>1, <2>3, OtherStep DEF Migrate, disk
<1>5. ASSUME th[t].job # "update",
             \/ AuthRead(t) \/ ReadClock(t) \/ Reserve(t) \/ ReserveFails(t) \/ Check(t)
             \/ Success(t) \/ SuccessFails(t)
      PROVE CredentialHolds'
  <2>1. th'[t].job \in {"none", th[t].job}
    <3>1. CASE AuthRead(t)
      BY <1>0, <3>1 DEF AuthRead, Finish, Idle, Local
    <3>5. CASE ReadClock(t)
      BY <1>0, <3>5 DEF ReadClock, Local
    <3>6. CASE Reserve(t)
      BY <1>0, <3>6 DEF Reserve, Finish, Idle, Local
    <3>2. ASSUME Finish(t) \/ \E pc \in PCs : Goto(t, pc) PROVE th'[t].job \in {"none", th[t].job}
      BY <1>0, <3>2 DEF Finish, Goto, Idle, Local
    <3>3. CASE ReserveFails(t) \/ Check(t) \/ SuccessFails(t)
      BY <3>2, <3>3 DEF ReserveFails, Check, SuccessFails, PCs
    <3>4. CASE Success(t)
      BY <3>2, <3>4 DEF Success, PCs
    <3> QED BY <1>5, <3>1, <3>3, <3>4, <3>5, <3>6
  <2>2. UNCHANGED <<cred, home, session>>
    BY <1>5 DEF AuthRead, ReadClock, Reserve, ReserveFails, Check, Success, SuccessFails, account, disk
  <2> QED BY <1>5, <2>1, <2>2, OtherStep
<1>6. ASSUME th[t].job # "update"
      PROVE /\ ~(Move(t) \/ MoveFails(t) \/ PublishRead(t) \/ MoveBack(t) \/ MoveBackFails(t))
            /\ \A ok \in BOOLEAN : ~(Write(t, ok) \/ Publish(t, ok) \/ Restore(t, ok))
  <2>1. th[t].pc \notin {"move", "publish", "republish", "publishing", "republishing", "moveback", "restore"}
    BY <1>0, <1>6 DEF LocalOK, Alone
  <2> QED BY <1>6, <2>1 DEF Move, MoveFails, PublishRead, MoveBack, MoveBackFails, Write, Publish, Restore, At
<1> QED BY <1>1, <1>2, <1>3, <1>4, <1>5, <1>6 DEF Thread

\* A step of the command: the threads are idle.
LEMMA CommandStep ==
    ASSUME TypeInv, Alone, Command, CommandOK', th'[Tool].job = "none" => Named'
    PROVE  CredentialHolds'
<1>1. ~on /\ Only(Tool) /\ Tool \in Actors /\ Tool \notin Threads /\ Threads \subseteq Actors
      /\ th'[Tool].job \in {"none", "change", "remove", "provision"}
  BY CommandFrame, AccountAssumption DEF Actors
<1>2. ASSUME NEW t \in Threads PROVE th'[t].job = "none"
  <2>1. th'[t] = th[t] /\ LocalOK(th[t]) /\ th[t].pc = "idle"
    BY <1>1 DEF Only, TypeInv, Alone, At
  <2> QED BY <2>1 DEF LocalOK
<1> QED BY <1>1, <1>2 DEF CredentialHolds, Quiet

\* The steps of the command keep credential and home in step, or are marked half done.
LEMMA CredentialCommand ==
    ASSUME TypeInv, Alone, HomesHold, CredentialHolds, ~halfdone, ~halfdone', Command
    PROVE  CredentialHolds'
<1>0. /\ Tool \in Actors /\ th \in [Actors -> Local] /\ th[Tool] \in Local /\ LocalOK(th[Tool])
      /\ home \in [Names -> {"none", "empty", "files"}] /\ CommandOK /\ ~on /\ ~on'
      /\ cred \in Credential \cup {None}
      /\ (th[Tool].job \in {"change", "remove"} =>
            th[Tool].old \in Credential /\ th[Tool].old.user \in Users)
      /\ (th[Tool].job \in {"change", "provision"} => th[Tool].want.user \in Users)
      /\ Users \subseteq Names /\ Quarantine \in Names /\ Quarantine \notin Users
  <2>1. Tool \in Actors /\ th \in [Actors -> Local] /\ th[Tool] \in Local /\ LocalOK(th[Tool])
    BY DEF TypeInv, TypeOK, Actors
  <2>2. /\ th[Tool].job \in {"change", "remove"} =>
              th[Tool].old \in Credential /\ th[Tool].old.user \in Users
        /\ th[Tool].job \in {"change", "provision"} => th[Tool].want.user \in Users
    BY <2>1 DEF Local, LocalOK, Credential, Wish
  <2>3. home \in [Names -> {"none", "empty", "files"}] /\ cred \in Credential \cup {None}
    BY DEF TypeInv, TypeOK, Homes
  <2>4. CommandOK /\ ~on /\ ~on'
    BY CommandFrame DEF CredentialHolds
  <2>5. Users \subseteq Names /\ Quarantine \in Names /\ Quarantine \notin Users
    BY AccountAssumption DEF Names
  <2> QED BY <2>1, <2>2, <2>3, <2>4, <2>5
<1>1. ASSUME Offline PROVE Named
  <2>1. \A a \in Actors : th[a].job = "none"
    BY <1>0, <1>1 DEF Offline, Alone, At, TypeInv, LocalOK, Actors
  <2> QED BY <2>1 DEF CredentialHolds, Quiet
<1>2. ASSUME Finish(Tool) PROVE th'[Tool] = Idle /\ CommandOK'
  <2>1. th'[Tool] = Idle
    BY <1>0, <1>2 DEF Finish
  <2> QED BY <2>1 DEF CommandOK, Idle
<1> SUFFICES CommandOK' /\ (th'[Tool].job = "none" => Named')
  BY CommandStep
<1> USE DEF At
<1>3. ASSUME NEW u \in Users, NEW p \in Passwords, Provision(u, p)
      PROVE CommandOK' /\ (th'[Tool].job = "none" => Named')
  <2>1. /\ th'[Tool].pc = "write" /\ th'[Tool].job = "provision" /\ th'[Tool].want.user = u
        /\ th'[Tool].moved = FALSE
    BY <1>0, <1>3 DEF Provision, Begin, Idle
  <2>2. Named' /\ home'[u] # "none"
    BY <1>0, <1>1, <1>3 DEF Provision, Cached, Named, Credential
  <2> QED BY <2>1, <2>2 DEF CommandOK
<1>4. ASSUME NEW w \in Wish, Change(w) PROVE CommandOK' /\ (th'[Tool].job = "none" => Named')
  <2>1. /\ th'[Tool].pc = (IF w.user # cred.user THEN "move" ELSE "write") /\ th'[Tool].job = "change"
        /\ th'[Tool].old = cred /\ th'[Tool].want = w /\ th'[Tool].moved = FALSE
    BY <1>0, <1>4 DEF Change, Begin, Idle
  <2>2. cred # None /\ home[cred.user] # "none" /\ UNCHANGED <<cred, home>>
    BY <1>1, <1>4 DEF Change, Named, account, disk
  <2> QED BY <2>1, <2>2 DEF CommandOK
<1>5. CASE Move(Tool)
  <2> DEFINE o == th[Tool].old.user  w == th[Tool].want.user
  <2>1. /\ th[Tool].job = "change" /\ cred = th[Tool].old /\ home[o] # "none" /\ w # o /\ cred' = cred
        /\ o \in Users /\ w \in Users /\ cred # None
    BY <1>0, <1>5 DEF Move, CommandOK, LocalOK, Alone
  <2>2. CASE Finish(Tool) /\ UNCHANGED disk
    BY <1>0, <1>2, <2>1, <2>2 DEF Named, disk
  <2>3. CASE ~(Finish(Tool) /\ UNCHANGED disk)
    <3>1. home' = Renamed(o, w) /\ th' = [th EXCEPT ![Tool].pc = "write", ![Tool].moved = TRUE]
      BY <1>5, <2>3 DEF Move, Rename, Synced
    <3>2. home'[w] # "none"
      BY <1>0, <2>1, <3>1 DEF Renamed
    <3>3. /\ th'[Tool].pc = "write" /\ th'[Tool].job = "change" /\ th'[Tool].old = th[Tool].old
          /\ th'[Tool].want = th[Tool].want /\ th'[Tool].moved
      BY <1>0, <2>1, <3>1 DEF Local
    <3> QED BY <2>1, <3>2, <3>3 DEF CommandOK
  <2> QED BY <2>2, <2>3
<1>6. CASE MoveFails(Tool)
  <2>1. cred = th[Tool].old /\ home[th[Tool].old.user] # "none" /\ UNCHANGED <<cred, home>> /\ Finish(Tool)
    BY <1>0, <1>6 DEF MoveFails, CommandOK, disk
  <2> QED BY <1>0, <1>2, <2>1 DEF Named
<1>8. CASE ChangeBack \/ MoveBackFails(Tool)
  <2> DEFINE o == th[Tool].old.user  w == th[Tool].want.user
  <2>1. th[Tool].job = "change" /\ o \in Users /\ w \in Users
    BY <1>0, <1>8 DEF ChangeBack, MoveBackFails, LocalOK, Alone
  <2>2. /\ home[w] # "none" /\ Finish(Tool) /\ cred' = cred
        /\ cred.user \in {o, w} /\ (~th[Tool].moved => w = o)
        /\ (th[Tool].moved => cred = th[Tool].old)
        /\ home' = (IF th[Tool].moved THEN Renamed(w, o) ELSE home)
    <3>1. CASE ChangeBack
      BY <1>0, <2>1, <3>1 DEF ChangeBack, CommandOK, RenameBack, Synced, disk
    <3>2. CASE MoveBackFails(Tool)
      BY <1>0, <2>1, <3>2 DEF MoveBackFails, CommandOK, RenameBack, Cached, disk
    <3> QED BY <1>8, <3>1, <3>2
  <2>3. home'[o] # "none" /\ cred.user = o
    BY <1>0, <2>1, <2>2 DEF Renamed
  <2> QED BY <1>0, <1>2, <2>2, <2>3 DEF Named
<1>9. ASSUME NEW ok \in BOOLEAN, ProvisionWrite(ok)
      PROVE CommandOK' /\ (th'[Tool].job = "none" => Named')
  <2>1. home[th[Tool].want.user] # "none" /\ Named /\ UNCHANGED home /\ Finish(Tool)
        /\ cred' \in {cred, [user |-> th[Tool].want.user, pw |-> th[Tool].want.pw, old |-> FALSE]}
    BY <1>0, <1>9 DEF ProvisionWrite, CommandOK, WriteCredential, disk
  <2> QED BY <1>0, <1>2, <2>1 DEF Named
<1>10. ASSUME NEW ok \in BOOLEAN, ChangeWrite(ok)
       PROVE CommandOK' /\ (th'[Tool].job = "none" => Named')
  <2> DEFINE o == th[Tool].old.user  w == th[Tool].want.user
  <2>1. /\ th[Tool].job = "change" /\ cred = th[Tool].old /\ home[w] # "none" /\ UNCHANGED home
        /\ (~th[Tool].moved => w = o)
    BY <1>0, <1>10 DEF ChangeWrite, CommandOK, disk
  <2>2. Replacement(Tool).user = w /\ Replacement(Tool) # None
    BY <2>1, <1>0, ReplacementType, NoneAssumption DEF Replacement
  <2>3. CASE ok
    BY <1>0, <1>2, <1>10, <2>1, <2>2, <2>3 DEF ChangeWrite, WriteCredential, Named
  <2>4. CASE ~ok
    <3>1. cred'.user \in {o, w} /\ cred' # None
      BY <1>0, <1>10, <2>1, <2>2, <2>4, NoneAssumption DEF ChangeWrite, WriteCredential
    <3>2. /\ th'[Tool].pc = "moveback" /\ th'[Tool].job = "change" /\ th'[Tool].old = th[Tool].old
          /\ th'[Tool].want = th[Tool].want /\ th'[Tool].moved = th[Tool].moved
      BY <1>0, <1>10, <2>1, <2>4 DEF ChangeWrite, Goto, Local
    <3> QED BY <2>1, <3>1, <3>2 DEF CommandOK
  <2> QED BY <2>3, <2>4
<1>11. ASSUME NEW ok \in BOOLEAN, Unlink(ok)
       PROVE CommandOK' /\ (th'[Tool].job = "none" => Named')
  <2>1. th[Tool].job = "remove" /\ cred = th[Tool].old /\ home[Quarantine] # "none" /\ th[Tool].old.user \in Users
    BY <1>0, <1>11 DEF Unlink, CommandOK, LocalOK
  <2>2. CASE ok
    <3>1. cred' = None /\ th'[Tool].pc = "rmtree" /\ th'[Tool].job = "remove"
      BY <1>0, <1>11, <2>1, <2>2 DEF Unlink, Goto, Local
    <3> QED BY <3>1 DEF CommandOK
  <2>3. CASE ~ok
    <3>1. /\ Finish(Tool) /\ cred' \in {cred, None}
          /\ cred' # None => home' = Renamed(Quarantine, th[Tool].old.user)
      BY <1>11, <2>3 DEF Unlink, Synced, Cached
    <3> QED BY <1>0, <1>2, <2>1, <3>1 DEF Named, Renamed
  <2> QED BY <2>2, <2>3
<1>12. CASE Remove
  <2>1. th'[Tool].pc = "setaside" /\ th'[Tool].job = "remove" /\ th'[Tool].old = cred
    BY <1>0, <1>12 DEF Remove, Begin, Idle
  <2>2. cred' = cred /\ home' = home /\ home[cred.user] # "none"
    BY <1>12 DEF Remove, Movable, account, disk
  <2> QED BY <2>1, <2>2 DEF CommandOK
<1>14. ASSUME NEW ok \in BOOLEAN, SetAside(ok)
       PROVE CommandOK' /\ (th'[Tool].job = "none" => Named')
  <2>1. th[Tool].job = "remove" /\ cred = th[Tool].old /\ home[th[Tool].old.user] # "none"
        /\ th[Tool].old.user \in Users /\ ok
    BY <1>0, <1>14 DEF SetAside, CommandOK, LocalOK
  <2>2. /\ th'[Tool].pc = "unlink" /\ th'[Tool].job = "remove" /\ th'[Tool].old = th[Tool].old
        /\ cred' = cred /\ home' = Renamed(th[Tool].old.user, Quarantine)
    BY <1>0, <1>14, <2>1 DEF SetAside, Synced, Goto, Local
  <2>3. home'[Quarantine] # "none"
    BY <1>0, <2>1, <2>2 DEF Renamed
  <2> QED BY <2>1, <2>2, <2>3 DEF CommandOK
<1>13. CASE Rmtree \/ RmtreeFails
  <2>1. cred' = None /\ Finish(Tool)
    BY <1>0, <1>13 DEF Rmtree, RmtreeFails, CommandOK, account, disk
  <2> QED BY <1>2, <2>1 DEF Named
<1> QED BY <1>3, <1>4, <1>5, <1>6, <1>8, <1>9, <1>10, <1>11, <1>12, <1>13, <1>14 DEF Command

\* The invariant on the credential is inductive.
LEMMA CredentialNext ==
    TypeInv /\ TypeInv' /\ Alone /\ Alone' /\ HomesHold /\ CredentialHolds /\ [Next]_vars => CredentialHolds'
<1> SUFFICES ASSUME TypeInv, TypeInv', Alone, Alone', HomesHold, CredentialHolds, [Next]_vars, ~halfdone'
             PROVE  CredentialHolds'
  BY DEF CredentialHolds
<1>0. ~halfdone
  BY DEF Next, vars, history, Command, Provision, Change, Move, MoveFails, MoveBackFails, ChangeBack,
         ProvisionWrite, ChangeWrite, SetAside, Unlink, Remove, Rmtree, RmtreeFails, Thread, AuthRead,
         ReadClock, Reserve,
         ReserveFails, Check, Success, SuccessFails, PublishRead, MoveBack, Migrate, Write, Publish,
         Restore, Verify, Update, Login, Use, Writeback, Tick, Off, Crash, disk
<1>1. CASE UNCHANGED vars
  BY <1>1 DEF vars, account, history, CredentialHolds, UpdateOK, CommandOK, Named, Quiet, disk
<1>2. CASE Command
  BY <1>0, <1>2, CredentialCommand
<1>3. ASSUME NEW t \in Threads, Thread(t) PROVE CredentialHolds'
  BY <1>0, <1>3, CredentialThread
<1>4. home \in [Names -> {"none", "empty", "files"}] /\ \A a \in Actors : LocalOK(th[a])
  BY DEF TypeInv, TypeOK, Homes
<1>5. CASE Login
  <2>1. \A a \in Actors : th[a].pc = "idle" /\ th[a].job = "none"
    BY <1>4, <1>5 DEF Login, Offline, Alone, At, LocalOK, Actors
  <2>2. Named'
    BY <1>5 DEF Login, Named, disk
  <2> QED BY <1>5, <2>1, <2>2 DEF Login, CredentialHolds, CommandOK, Actors
<1>6. CASE Use
  <2>1. \A u \in Users : home'[u] = "none" <=> home[u] = "none"
    BY <1>4, <1>6 DEF Use, Synced, Names
  <2>2. UNCHANGED <<on, cred, session, th>> /\ on
    BY <1>6 DEF Use
  <2>3. Named => Named'
    BY <2>1, <2>2 DEF Named, Alone, TypeInv, TypeOK, Credential
  <2>4. ASSUME NEW t \in Threads, th[t].job = "update" PROVE UpdateOK(t)'
    <3>1. UpdateOK(t) /\ th[t].old.user \in Users /\ th[t].want.user \in Users
      BY <1>0, <2>4 DEF CredentialHolds, TypeInv, TypeOK, Actors, Local, LocalOK, Credential, Wish
    <3> QED BY <2>1, <2>2, <3>1 DEF UpdateOK
  <2>5. CommandOK'
    BY <2>2, CommandIdle DEF CommandOK
  <2> QED BY <1>0, <2>2, <2>3, <2>4, <2>5 DEF CredentialHolds, Quiet
<1>7. CASE Tick
  BY <1>7 DEF Tick, account, history, CredentialHolds, UpdateOK, CommandOK, Named, Quiet, disk
<1>8. CASE Off
  <2>1. \A a \in Actors : th[a].pc = "idle" /\ th[a].job = "none"
    BY <1>4, <1>8 DEF Off, At, LocalOK
  <2>2. Named
    BY <1>0, <2>1 DEF CredentialHolds, Quiet
  <2> QED BY <1>8, <2>1, <2>2 DEF Off, Synced, CredentialHolds, CommandOK, Named, Actors
<1>10. CASE Writeback
  <2>1. UNCHANGED <<on, cred, home, session, th, halfdone>>
    BY <1>10 DEF Writeback, Synced, history
  <2> QED BY <2>1 DEF CredentialHolds, UpdateOK, CommandOK, Named, Quiet
<1>9. CASE Crash
  <2>1. /\ cred' = cred /\ ~on' /\ \A a \in Actors : th'[a] = Idle
        /\ \A u \in Users : home'[u] = home[u]
    BY <1>9 DEF Crash
  <2>2. \A a \in Actors : /\ th[a].moved => th[a].pc \notin {"write", "restore", "moveback"}
                          /\ th[a].pc # "unlink"
    BY <1>9 DEF Crash
  <2>3. Named'
    <3> SUFFICES ASSUME cred # None PROVE home[cred.user] # "none"
      BY <2>1 DEF Named, TypeInv, TypeOK, Credential
    <3>1. CASE Quiet
      BY <1>0, <3>1 DEF CredentialHolds, Named
    <3>2. ASSUME NEW t \in Threads, th[t].job = "update" PROVE home[cred.user] # "none"
      <4>1. UpdateOK(t) /\ LocalOK(th[t]) /\ th[t] \in Local
        BY <1>0, <3>2 DEF CredentialHolds, TypeInv, TypeOK, Actors
      <4>2. th[t].moved => th[t].pc \notin {"write", "restore", "moveback"}
        BY <2>2 DEF Actors
      <4>3. th[t].pc \in {"auth", "reserve", "lock", "check", "success", "move", "write", "publish",
                          "publishing", "restore", "moveback", "republish", "republishing"}
        BY <3>2, <4>1 DEF Local, LocalOK, PCs
      <4> QED BY <4>1, <4>2, <4>3 DEF UpdateOK
    <3>3. CASE th[Tool].job # "none"
      <4>1. CommandOK /\ LocalOK(th[Tool]) /\ th[Tool] \in Local /\ th[Tool].pc # "unlink"
            /\ th[Tool].job \in {"change", "remove", "provision"}
            /\ (th[Tool].moved => th[Tool].pc \notin {"write", "restore", "moveback"})
        BY <1>0, <2>2, <3>3 DEF CredentialHolds, TypeInv, TypeOK, Actors, Alone
      <4>2. th[Tool].pc \in {"move", "write", "moveback", "setaside", "rmtree"}
        BY <4>1 DEF Local, LocalOK, PCs
      <4>3. CASE th[Tool].job = "provision"
        BY <4>1, <4>3 DEF CommandOK, Named
      <4>4. CASE th[Tool].job = "remove"
        BY <4>1, <4>2, <4>4 DEF CommandOK, LocalOK
      <4>5. CASE th[Tool].job = "change"
        BY <4>1, <4>2, <4>5 DEF CommandOK, LocalOK
      <4> QED BY <4>1, <4>3, <4>4, <4>5
    <3>4. Quiet \/ th[Tool].job # "none" \/ \E t \in Threads : th[t].job = "update"
      BY DEF Quiet, Alone, Actors
    <3> QED BY <3>1, <3>2, <3>3, <3>4
  <2> QED BY <2>1, <2>3 DEF CredentialHolds, CommandOK, Idle, Actors
<1> QED BY <1>1, <1>2, <1>3, <1>5, <1>6, <1>7, <1>8, <1>9, <1>10 DEF Next

\* Unless an update was cut, left half undone or overlapped, or a power cut took a rename the
\* handler does not sync, the credential names a user who has a home and, on the desktop, is
\* the one published: through change_user, remove_user, the update handler with its
\* rollback, failing calls and the login.
THEOREM CredentialSafe == Spec => []CredentialNamesHome
<1>1. CredentialHolds => CredentialNamesHome
  BY DEF CredentialHolds, CredentialNamesHome, Named
<1>2. Spec => [](TypeInv /\ Alone /\ HomesHold)
  BY TypeInit, TypeNext, AloneInit, AloneNext, HomesInit, HomesNext, PTL DEF Spec
<1> QED BY <1>1, <1>2, CredentialInit, CredentialNext, PTL DEF Spec
=============================================================================
