---------------------------- MODULE NotifyProofs -----------------------------
(* Theorems about the notifier for any farm, any recipients, any settings and *)
(* any bounds.                                                                *)
EXTENDS Notify, TLAPS

-----------------------------------------------------------------------------
(* Type correctness *)

(* The idle thread is well-typed. *)
LEMMA IdleThreadType == IdleThread \in Thread
  BY NotifyAssumption DEF IdleThread, Thread, AnyPrefs, NoState, State, Opt, Pc, Time

(* The notifier starts well-typed, with nobody told of anything. *)
LEMMA InitType == Init => TypeOK
  BY NotifyAssumption, IdleThreadType
     DEF Init, TypeOK, NoState, State, Told, Opt, Time

(* A commit of the sync leaves a row in its type. *)
LEMMA WrittenType ==
  ASSUME NEW old \in Opt(Row), NEW x \in Feed, now \in Time
  PROVE  Written(old, x) \in Row
<1>1. x.status \in Status /\ x.cont \in Opt(Cont) /\ x.inop \in BOOLEAN
  BY NotifyAssumption
<1>2. old # Null => old.since \in Time /\ old.low \in Opt(Time)
  BY DEF Opt, Row
<1> QED BY <1>1, <1>2 DEF Written, Since, Row, Opt

(* What the sets of devices and containers read from the farm are made of. *)
LEMMA ReadTypes ==
  ASSUME NEW p, NEW t
  PROVE  /\ HeldDown(p, t) \in SUBSET Dev
         /\ HeldLow(p, t) \in SUBSET Dev
         /\ Dark(t) \in SUBSET Cont
         /\ \A C : DevsOf(C) \in SUBSET Dev
         /\ \A C \in SUBSET Cont : Restored(C) \in SUBSET Cont
  BY DEF HeldDown, HeldLow, Dark, DevsOf, Restored

(* A thread that goes on to the next recipient. *)
LEMMA NextThreadType ==
  ASSUME NEW todo \in SUBSET Rcpt, NEW t \in Time
  PROVE  [IdleThread EXCEPT !.pc = "next", !.todo = todo, !.t = t] \in Thread
  BY IdleThreadType DEF Thread, Pc

(* Counting one more keeps a table of counters a table of counters. *)
LEMMA CountedType ==
  ASSUME NEW D, NEW f \in [D -> Nat], NEW n
  PROVE  [f EXCEPT ![n] = @ + 1] \in [D -> Nat]
<1>1. \A x \in D : [f EXCEPT ![n] = @ + 1][x] \in Nat
  <2> TAKE x \in D
  <2>1. CASE x = n
    BY <2>1
  <2>2. CASE x # n
    BY <2>2
  <2> QED BY <2>1, <2>2
<1> QED BY <1>1

(* The parts a state needs at some points of a pass: the dark containers are  *)
(* compared only with a power baseline, and what is to be saved after a power *)
(* message, or after a snapshot, has that part.                               *)
PowerBaseline == w.pc = "powerCheck" => w.s.pwr # Null
NewPower      == w.pc \in {"powerSend", "powerSave"} => w.new.pwr # Null
NewBaseline   == w.pc \in {"events", "last", "send", "save"} => w.new.off # Null
TypeInv == TypeOK /\ PowerBaseline /\ NewPower /\ NewBaseline

(* No step of the thread, the sync, the clock or the settings breaks the types. *)
LEMMA StepType == TypeInv /\ [Next]_vars => TypeOK'
<1> SUFFICES ASSUME TypeInv, [Next]_vars PROVE TypeOK'
  OBVIOUS
<1>0. TypeOK /\ PowerBaseline /\ NewPower /\ NewBaseline
  BY DEF TypeInv
<1> USE <1>0
<1>a. w \in Thread /\ w.t \in Time /\ w.todo \in SUBSET Rcpt /\ w.s \in State /\ w.p \in Prefs
      /\ w.new \in State
  BY DEF TypeOK, Thread
<1>1. CASE Clock
  BY <1>1 DEF Clock, TypeOK, Time
<1>2. ASSUME NEW f \in [Dev -> Opt(Feed)], NEW n \in 0..MaxEv, SyncCommit(f, n)
      PROVE  TypeOK'
  <2>1. farm' \in [Dev -> Opt(Row)]
    <3>1. \A d \in Dev : f[d] # Null => Written(farm[d], f[d]) \in Row
      BY WrittenType DEF TypeOK, Opt
    <3> QED BY <1>2, <3>1 DEF SyncCommit, TypeOK, Opt
  <2>2. told' \in [Rcpt -> Told]
    <3>1. \A f2 : StayTold(f2) \in [Rcpt -> Told]
      <4> SUFFICES ASSUME NEW f2, NEW r \in Rcpt
                   PROVE  [told[r] EXCEPT !.low = InEpisode(f2, @)] \in Told
        BY DEF StayTold
      <4>1. InEpisode(f2, told[r].low) \in SUBSET (Dev \X Time)
        BY DEF TypeOK, Told, InEpisode
      <4> QED BY <4>1 DEF TypeOK, Told
    <3> QED BY <1>2, <3>1 DEF SyncCommit
  <2>3. ev' \in 0..MaxEv
    <3>1. MaxEv \in Nat
      BY NotifyAssumption
    <3>2. ev \in 0..MaxEv /\ ev + n <= MaxEv /\ ev' = ev + n
      BY <1>2 DEF SyncCommit, TypeOK
    <3> QED BY <3>1, <3>2
  <2> QED BY <1>2, <2>1, <2>2, <2>3 DEF SyncCommit, TypeOK
<1>3. ASSUME NEW r \in Rcpt, NEW p \in Prefs, SetPrefs(r, p) PROVE TypeOK'
  BY <1>3 DEF SetPrefs, TypeOK
<1>4. CASE StartTick
  <2>1. [IdleThread EXCEPT !.pc = "next", !.todo = Rcpt, !.t = now] \in Thread
    BY NextThreadType DEF TypeOK
  <2> QED BY <1>4, <2>1 DEF StartTick, TypeOK, Go, World
<1>5. CASE EndTick
  BY <1>5, IdleThreadType DEF EndTick, TypeOK, Go, World
<1>6. ASSUME NEW r \in Rcpt, Pick(r) PROVE TypeOK'
  <2> DEFINE rest == [IdleThread EXCEPT !.pc = "next", !.todo = w.todo \ {r}, !.t = w.t]
  <2>1. rest \in Thread
    BY <1>a, NextThreadType
  <2>2. [rest EXCEPT !.pc = "daily", !.r = r, !.p = prefs[r], !.s = st[r]] \in Thread
    <3> HIDE DEF rest
    <3> QED BY <2>1 DEF TypeOK, Thread, Pc, Opt
  <2>3. w' \in Thread
    BY <1>6, <2>1, <2>2 DEF Pick, Go
  <2> QED BY <1>6, <2>3 DEF Pick, TypeOK, World
<1>7. CASE Daily
  BY <1>7 DEF Daily, TypeOK, To, Go, Thread, Pc, World
<1>8. CASE DailySave
  <2>1. Today(w.t) \in Nat
    BY <1>a, NotifyAssumption DEF Today, Time
  <2>2. [w.s EXCEPT !.daily = Today(w.t)] \in State
    BY <1>a, <2>1 DEF State, Opt
  <2>3. w' \in Thread
    BY <1>8, <1>a, <2>2 DEF DailySave, Go, Thread, Pc
  <2> QED BY <1>8, <2>2, <2>3 DEF DailySave, TypeOK, Save, World
<1>9. CASE PowerScan
  <2>1. Dark(w.t) \in SUBSET Cont
    BY ReadTypes
  <2>2. [w.s EXCEPT !.pwr = Dark(w.t)] \in State
    BY <1>a, <2>1 DEF State, Opt
  <2>3. w' \in Thread
    <3> DEFINE fresh == {c \in Dark(w.t) \ w.s.pwr : Burst(c)}
               s     == [w.s EXCEPT !.pwr = Dark(w.t)]
    <3>1. fresh \in SUBSET Cont /\ s \in State
      BY <2>1, <2>2
    <3>2. \/ w' = [w EXCEPT !.pc = "digest"]
          \/ w' = [w EXCEPT !.pc = "digest", !.s = s]
          \/ w' = [w EXCEPT !.pc = "powerCheck", !.fresh = fresh]
      BY <1>9 DEF PowerScan, To, Go
    <3> HIDE DEF fresh, s
    <3>3. CASE w' = [w EXCEPT !.pc = "digest"]
      BY <1>a, <3>3 DEF Thread, Pc
    <3>4. CASE w' = [w EXCEPT !.pc = "digest", !.s = s]
      BY <1>a, <3>1, <3>4 DEF Thread, Pc
    <3>5. CASE w' = [w EXCEPT !.pc = "powerCheck", !.fresh = fresh]
      BY <1>a, <3>1, <3>5 DEF Thread, Pc
    <3> QED BY <3>2, <3>3, <3>4, <3>5
  <2>4. told' \in [Rcpt -> Told]
    <3>1. [told[w.r] EXCEPT !.pwr = Dark(w.t)] \in Told \/ w.r \notin Rcpt
      BY <2>1 DEF TypeOK, Told
    <3> QED BY <1>9, <3>1 DEF PowerScan, TypeOK, Tell
  <2>5. st' \in [Rcpt -> State]
    BY <1>9, <2>2 DEF PowerScan, TypeOK, Save
  <2> QED BY <1>9, <2>3, <2>4, <2>5 DEF PowerScan, TypeOK, World
<1>10. CASE PowerCheck
  <2>1. CASE w' = [w EXCEPT !.pc = "digest"]
    BY <1>10, <1>a, <2>1 DEF PowerCheck, TypeOK, Thread, Pc, World
  <2>2. CASE w' # [w EXCEPT !.pc = "digest"]
    <3> DEFINE back == Restored(w.s.pwr)
               new  == [w.s EXCEPT !.pwr = (@ \ back) \cup w.fresh]
               add  == {d \in DevsOf(w.fresh) : farm[d].status = "offline"}
               drop == {d \in DevsOf(back) : farm[d].status # "offline"}
    <3>1. new \in State
      <4>1. w.s.pwr \in SUBSET Cont /\ w.fresh \in SUBSET Cont
        BY <1>a, <1>10 DEF PowerCheck, At, PowerBaseline, State, Opt, Thread
      <4> HIDE DEF back
      <4> QED BY <1>a, <4>1 DEF State, Opt
    <3>2. add \in SUBSET Dev /\ drop \in SUBSET Dev
      BY ReadTypes
    <3>3. w' = [w EXCEPT !.pc = "powerSend", !.new = new, !.add = add, !.drop = drop]
      BY <1>10, <2>2 DEF PowerCheck, Go, To
    <3>4. w' \in Thread
      <4> HIDE DEF new, add, drop
      <4> QED BY <1>a, <3>1, <3>2, <3>3 DEF Thread, Pc
    <3> QED BY <1>10, <3>4 DEF PowerCheck, TypeOK, World
  <2> QED BY <2>1, <2>2
<1>11. CASE PowerSave
  <2> DEFINE off == IF w.s.off = Null THEN {} ELSE w.s.off
             s   == [w.new EXCEPT !.off = (off \cup w.add) \ w.drop]
  <2>1. s \in State
    <3>1. off \in SUBSET Dev /\ w.add \in SUBSET Dev
      BY <1>a DEF State, Opt, Thread
    <3> QED BY <1>a, <3>1 DEF State, Opt
  <2>2. w' = [w EXCEPT !.pc = "digest", !.s = s] /\ st' = [st EXCEPT ![w.r] = s]
    BY <1>11 DEF PowerSave, Go, Save
  <2> HIDE DEF s
  <2>3. w' \in Thread
    BY <1>a, <2>1, <2>2 DEF Thread, Pc
  <2>4. st' \in [Rcpt -> State]
    BY <2>1, <2>2 DEF TypeOK
  <2> QED BY <1>11, <2>3, <2>4 DEF PowerSave, TypeOK, World
<1>12. CASE Digest
  <2>1. CASE NextRecipient
    BY <1>12, <1>a, <2>1, NextThreadType DEF Digest, NextRecipient, Go, TypeOK, World
  <2>2. CASE ~NextRecipient
    <3> DEFINE off == HeldDown(w.p, w.t)
               low == HeldLow(w.p, w.t)
               seen == {<<d, farm[d].low>> : d \in low}
    <3>1. off \in SUBSET Dev /\ low \in SUBSET Dev
      BY ReadTypes
    <3>2. seen \in SUBSET (Dev \X Time)
      BY DEF HeldLow, TypeOK, Opt, Row
    <3>3. w' = [w EXCEPT !.pc = "back", !.off = off, !.low = low, !.seen = seen]
      BY <1>12, <2>2 DEF Digest, Go
    <3>4. w' \in Thread
      <4> HIDE DEF off, low, seen
      <4> QED BY <1>a, <3>1, <3>2, <3>3 DEF Thread, Pc
    <3> QED BY <1>12, <3>4 DEF Digest, TypeOK, World
  <2> QED BY <2>1, <2>2
<1>13. CASE ReadBack
  <2> DEFINE new == [off |-> Kept, low |-> w.low, ev |-> 0, last |-> w.t,
                       daily |-> w.s.daily, pwr |-> w.s.pwr]
  <2>1. Gone \ Still \in SUBSET Dev /\ Kept \in SUBSET Dev
    BY <1>a DEF Gone, Still, Kept, Reported, First, State, Opt, Thread
  <2>2. new \in State
    BY <1>a, <2>1 DEF State, Opt, Thread, Time
  <2>3. w' \in Thread
    <3>1. w' = [w EXCEPT !.pc = "events", !.back = Gone \ Still, !.new = new]
      BY <1>13 DEF ReadBack, Go
    <3> HIDE DEF new
    <3> QED BY <1>a, <2>1, <2>2, <3>1 DEF Thread, Pc
  <2> QED BY <1>13, <2>3 DEF ReadBack, TypeOK, World
<1>14. CASE ReadEvents
  <2>1. {e \in 1..ev : e > w.s.ev /\ e <= w.s.ev + EvLimit} \in SUBSET Nat
    OBVIOUS
  <2>2. w' \in Thread
    BY <1>14, <1>a, <2>1 DEF ReadEvents, Go, Thread, Pc
  <2> QED BY <1>14, <2>2 DEF ReadEvents, TypeOK, World
<1>15. CASE ReadLast
  <2>1. CASE NextRecipient
    BY <1>15, <1>a, <2>1, NextThreadType DEF ReadLast, NextRecipient, Go, TypeOK, World
  <2>2. CASE ~NextRecipient
    <3> DEFINE has == [offline |-> NewOff, online |-> w.back, lowhash |-> NewLow, pool |-> w.pool]
               lines == IF First THEN {} ELSE {x \in DOMAIN has \cap w.p.types : has[x] # {}}
               new == [w.new EXCEPT !.ev = ev]
    <3>1. \/ w' = [w EXCEPT !.pc = "save", !.new = new, !.lines = lines]
          \/ w' = [w EXCEPT !.pc = "send", !.new = new, !.lines = lines]
      BY <1>15, <2>2 DEF ReadLast, Go
    <3>2. new \in State
      <4>1. ev \in Nat
        BY DEF TypeOK
      <4> QED BY <1>a, <4>1 DEF State
    <3>3. lines \in SUBSET Types
      <4>1. w.p.types \in SUBSET Types
        BY <1>a, NotifyAssumption
      <4> HIDE DEF has
      <4> QED BY <4>1
    <3>4. w' \in Thread
      <4> HIDE DEF lines, new
      <4>1. CASE w' = [w EXCEPT !.pc = "save", !.new = new, !.lines = lines]
        BY <1>a, <3>2, <3>3, <4>1 DEF Thread, Pc
      <4>2. CASE w' = [w EXCEPT !.pc = "send", !.new = new, !.lines = lines]
        BY <1>a, <3>2, <3>3, <4>2 DEF Thread, Pc
      <4> QED BY <3>1, <4>1, <4>2
    <3> QED BY <1>15, <3>4 DEF ReadLast, TypeOK, World
  <2> QED BY <2>1, <2>2
<1>16. CASE DigestSave
  <2>1. st' \in [Rcpt -> State] /\ w' \in Thread
    BY <1>16, <1>a, NextThreadType DEF DigestSave, Save, NextRecipient, Go, TypeOK
  <2>2. told' \in [Rcpt -> Told]
    <3> DEFINE new == [told[w.r] EXCEPT !.down = w.new.off, !.ev = 1..w.new.ev,
                                        !.low = InEpisode(farm, w.seen)]
    <3>1. CASE ~First
      BY <1>16, <3>1 DEF DigestSave, TypeOK
    <3>2. CASE First /\ w.r \in Rcpt
      <4>1. w.new.off \in SUBSET Dev
        BY <1>16, <1>a DEF NewBaseline, DigestSave, At, State, Opt
      <4>2. 1..w.new.ev \in SUBSET Nat /\ InEpisode(farm, w.seen) \in SUBSET (Dev \X Time)
        BY <1>a DEF InEpisode, Thread
      <4>3. told[w.r] \in Told
        BY <3>2 DEF TypeOK
      <4>4. new \in Told
        BY <4>1, <4>2, <4>3 DEF Told
      <4>5. told' = [told EXCEPT ![w.r] = new]
        BY <1>16, <3>2 DEF DigestSave, Tell
      <4> HIDE DEF new
      <4> QED BY <4>4, <4>5 DEF TypeOK
    <3>3. CASE First /\ w.r \notin Rcpt
      BY <1>16, <3>3 DEF DigestSave, TypeOK, Tell
    <3> QED BY <3>1, <3>2, <3>3
  <2> QED BY <1>16, <2>1, <2>2 DEF DigestSave, TypeOK, World
<1>17. ASSUME NEW ok \in BOOLEAN, Send(ok) PROVE TypeOK'
  <2>1. CASE DailySend(ok)
    <3>1. ASSUME NEW o \in Told, NEW n
          PROVE  [o EXCEPT !.daily[n] = @ + 1] \in Told
      <4>1. [o.daily EXCEPT ![n] = @ + 1] \in [0..(MaxTime \div Day) -> Nat]
        BY CountedType DEF Told
      <4> QED BY <4>1 DEF Told
    <3>2. told' \in [Rcpt -> Told]
      <4> DEFINE x == [told[w.r] EXCEPT !.daily[Today(w.t)] = @ + 1]
      <4>1. told' = told \/ told' = [told EXCEPT ![w.r] = x]
        BY <2>1 DEF DailySend, Tell
      <4>2. w.r \in Rcpt => x \in Told
        BY <3>1 DEF TypeOK
      <4> HIDE DEF x
      <4> QED BY <4>1, <4>2 DEF TypeOK
    <3>3. w' \in Thread
      BY <2>1, <1>a DEF DailySend, To, Go, Thread, Pc
    <3> QED BY <2>1, <3>2, <3>3 DEF DailySend, TypeOK, World
  <2>2. CASE PowerSend(ok)
    <3>1. CASE told' = told
      BY <1>17, <2>2, <3>1 DEF PowerSend, TypeOK, World, To, Go, Thread, Pc
    <3>2. CASE ok
      <4>1. ASSUME NEW o \in Told
            PROVE  [o EXCEPT !.pwr = w.new.pwr, !.down = (@ \cup w.add) \ w.drop] \in Told
        <5>1. w.new.pwr \in SUBSET Cont /\ w.add \in SUBSET Dev
          BY <2>2, <1>a DEF PowerSend, At, NewPower, State, Opt, Thread
        <5> QED BY <5>1 DEF Told
      <4>2. told' \in [Rcpt -> Told]
        BY <2>2, <3>2, <4>1, ZenonT(60) DEF PowerSend, TypeOK, Tell
      <4>3. w' \in Thread
        BY <2>2, <3>2, <1>a DEF PowerSend, To, Go, Thread, Pc
      <4> QED BY <2>2, <4>2, <4>3 DEF PowerSend, TypeOK, World
    <3> QED BY <2>2, <3>1, <3>2 DEF PowerSend
  <2>3. CASE DigestSend(ok)
    <3>1. Digested(told[w.r]) \in Told \/ w.r \notin Rcpt
      <4> SUFFICES ASSUME NEW o \in Told
                   PROVE  Digested(o) \in Told
        BY DEF TypeOK
      <4> DEFINE down == (o.down \cup IF "offline" \in w.lines THEN NewOff ELSE {})
                             \ IF "online" \in w.lines THEN w.back ELSE {}
                 low  == InEpisode(farm, o.low \cup IF "lowhash" \in w.lines THEN NewEpisodes ELSE {})
                 evs  == o.ev \cup IF "pool" \in w.lines THEN w.pool ELSE {}
      <4>1. down \in SUBSET Dev /\ low \in SUBSET (Dev \X Time) /\ evs \in SUBSET Nat
        BY <1>a DEF NewOff, NewEpisodes, InEpisode, Told, Thread
      <4>2. Digested(o) = [o EXCEPT !.down = down, !.low = low, !.ev = evs]
        BY DEF Digested
      <4> HIDE DEF down, low, evs
      <4> QED BY <4>1, <4>2 DEF Told
    <3>2. told' \in [Rcpt -> Told]
      BY <2>3, <3>1 DEF DigestSend, TypeOK, Tell
    <3>3. w' \in Thread
      BY <2>3, <1>a DEF DigestSend, To, Go, Thread, Pc
    <3> QED BY <2>3, <3>2, <3>3 DEF DigestSend, TypeOK, World
  <2> QED BY <1>17, <2>1, <2>2, <2>3 DEF Send
<1>18. CASE Crash
  BY <1>18, IdleThreadType DEF Crash, TypeOK, Go, World
<1>19. CASE UNCHANGED vars
  BY <1>19 DEF TypeOK, vars
<1> QED
  BY <1>1, <1>2, <1>3, <1>4, <1>5, <1>6, <1>7, <1>8, <1>9, <1>10, <1>11,
     <1>12, <1>13, <1>14, <1>15, <1>16, <1>17, <1>18, <1>19
     DEF Next, ThreadStep, Outcome

(* A thread that is past a recipient's power baseline, or is about to save,   *)
(* holds a state that has the part it works on.                               *)
LEMMA StepParts == TypeInv /\ [Next]_vars => PowerBaseline' /\ NewPower' /\ NewBaseline'
<1> SUFFICES ASSUME TypeInv, [Next]_vars PROVE PowerBaseline' /\ NewPower' /\ NewBaseline'
  OBVIOUS
<1> USE DEF PowerBaseline, NewPower, NewBaseline
<1>0. w \in Thread /\ w.s \in State /\ w.new \in State /\ w.off \in SUBSET Dev
  BY DEF TypeInv, TypeOK, Thread
<1>1. CASE w' = w
  BY <1>1 DEF TypeInv
<1>2. CASE w'.pc \notin {"powerCheck", "powerSend", "powerSave", "events", "last", "send", "save"}
  BY <1>2
<1>3. CASE PowerScan
  <2>1. CASE w' = [w EXCEPT !.pc = "powerCheck", !.fresh = w'.fresh] /\ w.s.pwr # Null
    BY <2>1, <1>0 DEF Thread
  <2>2. CASE w'.pc = "digest"
    BY <2>2
  <2> QED BY <1>0, <1>3, <2>1, <2>2 DEF PowerScan, To, Go, Thread
<1>4. CASE PowerCheck
  <2>1. w.s.pwr \in SUBSET Cont /\ w.fresh \in SUBSET Cont
    BY <1>0, <1>4 DEF PowerCheck, At, TypeInv, State, Opt, Thread
  <2> DEFINE back == Restored(w.s.pwr)
  <2>2. CASE w'.pc = "digest"
    BY <2>2
  <2>3. CASE w'.pc = "powerSend" /\ w'.new = [w.s EXCEPT !.pwr = (@ \ back) \cup w.fresh]
    <3>1. w'.new.pwr = (w.s.pwr \ back) \cup w.fresh
      BY <1>0, <2>3 DEF State
    <3>2. w'.new.pwr # Null
      BY <2>1, <3>1, NotifyAssumption
    <3> QED BY <2>3, <3>2
  <2> QED BY <1>0, <1>4, <2>2, <2>3 DEF PowerCheck, To, Go, Thread
<1>5. CASE ReadBack
  <2>1. w'.pc = "events" /\ w'.new.off = Kept
    BY <1>0, <1>5 DEF ReadBack, Go, Thread
  <2>2. Reported \in SUBSET Dev
    BY <1>0 DEF Reported, First, State, Opt
  <2>3. w'.new.off # Null
    BY <1>0, <2>1, <2>2, NotifyAssumption DEF Kept, Still, Gone
  <2> QED BY <2>1, <2>3
<1>6. CASE ReadEvents
  BY <1>0, <1>6 DEF ReadEvents, At, Go, Thread, TypeInv
<1>7. CASE ReadLast
  <2>1. CASE NextRecipient
    BY <2>1, IdleThreadType DEF NextRecipient, Go, Thread
  <2>2. CASE w'.pc \in {"save", "send"} /\ w'.new = [w.new EXCEPT !.ev = ev]
    <3>1. w'.new.off = w.new.off /\ w.pc = "last"
      BY <1>0, <1>7, <2>2 DEF State, ReadLast, At
    <3> QED BY <2>2, <3>1 DEF TypeInv
  <2> QED BY <1>0, <1>7, <2>1, <2>2 DEF ReadLast, Go, Thread
<1>8. ASSUME NEW ok \in BOOLEAN, Send(ok)
      PROVE  PowerBaseline' /\ NewPower' /\ NewBaseline'
  <2>1. \/ w.pc = "powerSend" /\ w' = [w EXCEPT !.pc = "powerSave"]
        \/ w.pc = "send" /\ w' = [w EXCEPT !.pc = "save"]
        \/ w'.pc \in {"digest", "dailySave"}
    BY <1>0, <1>8 DEF Send, DailySend, PowerSend, DigestSend, At, To, Go, Thread
  <2> QED BY <1>0, <2>1 DEF TypeInv, Thread
<1>9. \/ w' = w
      \/ w'.pc \in {"idle", "next", "daily", "dailySend", "dailySave", "power", "digest", "back"}
      \/ PowerScan \/ PowerCheck \/ ReadBack \/ ReadEvents \/ ReadLast
      \/ \E ok \in BOOLEAN : Send(ok)
  <2> DEFINE calm == {"idle", "next", "daily", "dailySend", "dailySave", "power", "digest", "back"}
  <2>1. Clock \/ UNCHANGED vars => w' = w
    BY DEF Clock, vars
  <2>2. (\E f \in [Dev -> Opt(Feed)], n \in 0..MaxEv : SyncCommit(f, n)) => w' = w
    BY DEF SyncCommit
  <2>3. (\E r \in Rcpt, p \in Prefs : SetPrefs(r, p)) => w' = w
    BY DEF SetPrefs
  <2>4. StartTick \/ EndTick \/ Crash => w'.pc \in calm
    <3>1. IdleThread.pc = "idle"
      BY DEF IdleThread
    <3> QED BY <3>1, IdleThreadType DEF StartTick, EndTick, Crash, Go, Thread
  <2>5. ASSUME NEW r \in Rcpt, Pick(r) PROVE w'.pc \in calm
    BY <2>5, IdleThreadType DEF Pick, Go, Thread
  <2>6. Daily \/ DailySave \/ PowerSave => w'.pc \in calm
    BY <1>0 DEF Daily, DailySave, PowerSave, To, Go, Thread
  <2>7. NextRecipient => w'.pc \in calm
    BY IdleThreadType DEF NextRecipient, Go, Thread
  <2>8. Digest \/ DigestSave => w'.pc \in calm
    BY <1>0, <2>7 DEF Digest, DigestSave, Go, Thread
  <2> HIDE DEF calm
  <2> QED BY <2>1, <2>2, <2>3, <2>4, <2>5, <2>6, <2>8 DEF Next, ThreadStep, Outcome, calm
<1> QED BY <1>1, <1>2, <1>3, <1>4, <1>5, <1>6, <1>7, <1>8, <1>9

(* Whatever the farm, the settings and the failures, every variable keeps its *)
(* type, and a pass never reads a part that its copy of the state lacks.      *)
THEOREM TypeCorrect == Spec => []TypeOK
<1>1. Init => TypeInv
  BY InitType DEF Init, IdleThread, TypeInv, PowerBaseline, NewPower, NewBaseline
<1>2. TypeInv /\ [Next]_vars => TypeInv'
  BY StepType, StepParts DEF TypeInv
<1>3. TypeInv => TypeOK
  BY DEF TypeInv
<1> QED BY <1>1, <1>2, <1>3, PTL DEF Spec

(*---------------------- what was reported ----------------------*)
(* What the saved states of the notifier say of its recipients: that the      *)
(* devices and containers counted as reported are those last told of, and     *)
(* that what is saved keeps anything from being told twice.                   *)

Rep(D) == IF D = Null THEN {} ELSE D

(* From "daily" on the thread works for a recipient, with a copy of its state.*)
CopyIsSaved == w.pc \notin {"idle", "next"} => w.r \in Rcpt /\ w.s = st[w.r]

(* Only between a delivery and the save that follows is anyone ahead of his   *)
(* state.                                                                     *)
OthersSaved == \A r \in Rcpt : r # w.r \/ w.pc \notin {"powerSave", "save"}
                                  => Rep(st[r].off) = told[r].down
PowerAhead  == w.pc = "powerSave" => told[w.r].down = (Reported \cup w.add) \ w.drop
DigestAhead == w.pc = "save" => First \/ told[w.r].down = w.new.off

(* What a digest is to save is what was reported and what it tells. *)
DigestIsNews ==
    w.pc \in {"events", "last", "send"} => /\ w.new.off = (Reported \cup NewOff) \ w.back
                                           /\ w.back \subseteq Reported
LinesSayAll ==
    w.pc = "send" => /\ ~First
                     /\ "offline" \in w.lines \/ NewOff = {}
                     /\ "online" \in w.lines \/ w.back = {}

DownInv == /\ CopyIsSaved /\ OthersSaved /\ PowerAhead
           /\ DigestAhead /\ DigestIsNews /\ LinesSayAll

(* The same for the containers told as dark, which a digest leaves alone. *)
OthersPower == \A r \in Rcpt : r # w.r \/ w.pc # "powerSave"
                                  => st[r].pwr = Null \/ st[r].pwr = told[r].pwr
PowerSent == w.pc = "powerSave" => w.new.pwr = told[w.r].pwr
PowerKept == w.pc \in {"events", "last", "send", "save"} => w.new.pwr = w.s.pwr

PowerInv == CopyIsSaved /\ OthersPower /\ PowerSent /\ PowerKept

-----------------------------------------------------------------------------
(* What the steps do to these parts *)

Same(r) == /\ told'[r].down = told[r].down /\ told'[r].pwr = told[r].pwr
           /\ st'[r] = st[r]

(* Nothing but the thread changes what was told, a state, or the thread. *)
LEMMA OthersAct ==
  ASSUME TypeOK,
         \/ Clock
         \/ \E f \in [Dev -> Opt(Feed)], n \in 0..MaxEv : SyncCommit(f, n)
         \/ \E r \in Rcpt, p \in Prefs : SetPrefs(r, p)
         \/ UNCHANGED vars
  PROVE  w' = w /\ \A r \in Rcpt : Same(r)
<1>1. CASE Clock \/ UNCHANGED vars
  BY <1>1 DEF Clock, vars, Same
<1>2. ASSUME NEW r \in Rcpt, NEW p \in Prefs, SetPrefs(r, p)
      PROVE  w' = w /\ \A q \in Rcpt : Same(q)
  BY <1>2 DEF SetPrefs, Same
<1>3. ASSUME NEW f \in [Dev -> Opt(Feed)], NEW n \in 0..MaxEv, SyncCommit(f, n)
      PROVE  w' = w /\ \A r \in Rcpt : Same(r)
  <2>1. \A r \in Rcpt : /\ StayTold(farm')[r].down = told[r].down
                        /\ StayTold(farm')[r].pwr = told[r].pwr
    BY DEF StayTold, TypeOK, Told
  <2>2. told' = StayTold(farm') /\ st' = st /\ w' = w
    BY <1>3 DEF SyncCommit
  <2> QED BY <2>1, <2>2 DEF Same
<1> QED BY <1>1, <1>2, <1>3

(* A pass starts, ends, and takes up a recipient with a copy of its state. *)
LEMMA PassActs ==
  ASSUME TypeOK, NEW r \in Rcpt, StartTick \/ EndTick \/ Pick(r)
  PROVE  /\ w.pc \in {"idle", "next"}
         /\ \/ w'.pc \in {"idle", "next"}
            \/ w'.pc = "daily" /\ w'.r = r /\ w'.s = st[r]
         /\ \A q \in Rcpt : Same(q)
<1>0. IdleThread.pc = "idle" /\ IdleThread \in Thread
  BY IdleThreadType DEF IdleThread
<1>1. CASE StartTick \/ EndTick
  BY <1>0, <1>1 DEF StartTick, EndTick, At, Go, Thread, Same
<1>2. CASE Pick(r)
  <2>1. w.pc = "next" /\ st' = st
    BY <1>2 DEF Pick, At
  <2>2. \/ w'.pc = "next"
        \/ w'.pc = "daily" /\ w'.r = r /\ w'.s = st[r]
    BY <1>0, <1>2 DEF Pick, Go, Thread
  <2>3. told' = told
    BY <1>2 DEF Pick
  <2> QED BY <2>1, <2>2, <2>3 DEF Same
<1> QED BY <1>1, <1>2

(* The morning summary touches neither devices nor containers. *)
LEMMA DailyActs ==
  ASSUME TypeOK, w.r \in Rcpt, NEW ok \in BOOLEAN, Daily \/ DailySend(ok) \/ DailySave,
         CopyIsSaved
  PROVE  /\ w.pc \in {"daily", "dailySend", "dailySave"}
         /\ w'.pc \in {"dailySend", "dailySave", "power"}
         /\ w'.r = w.r /\ w'.s = st'[w.r] /\ w'.s.off = w.s.off /\ w'.s.pwr = w.s.pwr
         /\ \A q \in Rcpt : /\ told'[q].down = told[q].down /\ told'[q].pwr = told[q].pwr
                            /\ st'[q].off = st[q].off /\ st'[q].pwr = st[q].pwr
<1>0. w \in Thread /\ w.s \in State
  BY DEF TypeOK, Thread
<1>1. CASE Daily
  BY <1>0, <1>1 DEF Daily, At, To, Go, Thread, Same, CopyIsSaved
<1>2. CASE DailySend(ok)
  <2>1. w.pc = "dailySend" /\ w' = [w EXCEPT !.pc = "dailySave"] /\ st' = st
    BY <1>2 DEF DailySend, At, To, Go
  <2>2. ASSUME NEW q \in Rcpt
        PROVE  told'[q].down = told[q].down /\ told'[q].pwr = told[q].pwr
    <3>1. told[w.r] \in Told /\ told \in [Rcpt -> Told]
      BY DEF TypeOK
    <3> DEFINE x == [told[w.r] EXCEPT !.daily[Today(w.t)] = @ + 1]
    <3>2. x.down = told[w.r].down /\ x.pwr = told[w.r].pwr
      BY <3>1 DEF Told
    <3>3. told' = told \/ told' = [told EXCEPT ![w.r] = x]
      BY <1>2 DEF DailySend, Tell
    <3> HIDE DEF x
    <3> QED BY <3>1, <3>2, <3>3
  <2> QED BY <1>0, <2>1, <2>2 DEF Thread, CopyIsSaved
<1>3. CASE DailySave
  <2> DEFINE s == [w.s EXCEPT !.daily = Today(w.t)]
  <2>1. s.off = w.s.off /\ s.pwr = w.s.pwr
    BY <1>0 DEF State
  <2>2. w.pc = "dailySave" /\ told' = told
    BY <1>3 DEF DailySave, At
  <2>3. w' = [w EXCEPT !.pc = "power", !.s = s] /\ st' = [st EXCEPT ![w.r] = s]
    BY <1>3 DEF DailySave, Go, Save
  <2> HIDE DEF s
  <2>4. \A q \in Rcpt : st'[q].off = st[q].off /\ st'[q].pwr = st[q].pwr
    BY <2>1, <2>2, <2>3 DEF CopyIsSaved, TypeOK
  <2>5. st'[w.r] = s
    BY <2>3 DEF TypeOK
  <2> QED BY <1>0, <2>1, <2>2, <2>3, <2>4, <2>5 DEF Thread
<1> QED BY <1>1, <1>2, <1>3

(* The look at the containers: the first one is the baseline. *)
LEMMA PowerLooks ==
  ASSUME TypeOK, CopyIsSaved, w.r \in Rcpt, PowerScan \/ PowerCheck
  PROVE  /\ w.pc \in {"power", "powerCheck"}
         /\ w'.pc \in {"powerCheck", "powerSend", "digest"}
         /\ w'.r = w.r /\ w'.s = st'[w.r] /\ w'.s.off = w.s.off
         /\ w'.pc = "powerSend" => w'.s.pwr = w.s.pwr
         /\ \/ st'[w.r].pwr = told'[w.r].pwr
            \/ st'[w.r].pwr = st[w.r].pwr /\ told'[w.r].pwr = told[w.r].pwr
         /\ \A q \in Rcpt : /\ told'[q].down = told[q].down /\ st'[q].off = st[q].off
                            /\ q # w.r => Same(q)
<1>0. w \in Thread /\ w.s \in State /\ told \in [Rcpt -> Told] /\ st \in [Rcpt -> State]
  BY DEF TypeOK, Thread
<1>1. CASE PowerCheck
  <2>1. w.pc = "powerCheck" /\ st' = st /\ told' = told
    BY <1>1 DEF PowerCheck, At
  <2>2. w'.pc \in {"powerSend", "digest"} /\ w'.r = w.r /\ w'.s = w.s
    BY <1>0, <1>1 DEF PowerCheck, To, Go, Thread
  <2> QED BY <2>1, <2>2 DEF CopyIsSaved, Same
<1>2. CASE PowerScan /\ ~("power" \in w.p.types /\ w.s.pwr = Null)
  <2>1. w.pc = "power" /\ st' = st /\ told' = told
    BY <1>2 DEF PowerScan, At
  <2>2. w'.pc \in {"powerCheck", "digest"} /\ w'.r = w.r /\ w'.s = w.s
    BY <1>0, <1>2 DEF PowerScan, To, Go, Thread
  <2> QED BY <1>2, <2>1, <2>2 DEF CopyIsSaved, Same
<1>3. CASE PowerScan /\ "power" \in w.p.types /\ w.s.pwr = Null
  <2> DEFINE s == [w.s EXCEPT !.pwr = Dark(w.t)]
             x == [told[w.r] EXCEPT !.pwr = Dark(w.t)]
  <2>1. s.off = w.s.off /\ s.pwr = Dark(w.t)
    BY <1>0 DEF State
  <2>2. x.down = told[w.r].down /\ x.pwr = Dark(w.t)
    BY <1>0 DEF Told
  <2>0. w.pc = "power"
    BY <1>3 DEF PowerScan, At
  <2>3. /\ w' = [w EXCEPT !.pc = "digest", !.s = s]
        /\ st' = [st EXCEPT ![w.r] = s]
        /\ told' = [told EXCEPT ![w.r] = x]
    BY <1>3 DEF PowerScan, Go, Save, Tell
  <2> HIDE DEF s, x
  <2>4. w'.pc = "digest" /\ w'.r = w.r /\ w'.s = s
    BY <1>0, <2>3 DEF Thread
  <2>5. \A q \in Rcpt : /\ told'[q].down = told[q].down /\ st'[q].off = st[q].off
                        /\ q # w.r => Same(q)
    BY <1>0, <2>0, <2>1, <2>2, <2>3 DEF CopyIsSaved, Same
  <2>6. st'[w.r] = s /\ told'[w.r] = x
    BY <1>0, <2>3
  <2>7. w'.s.off = w.s.off /\ w'.s = st'[w.r] /\ st'[w.r].pwr = told'[w.r].pwr
    BY <2>1, <2>2, <2>4, <2>6
  <2> QED BY <2>0, <2>4, <2>5, <2>7
<1> QED BY <1>1, <1>2, <1>3

(* A delivered power message tells what is saved next; a lost one changes     *)
(* nothing, and the pass goes on without saving.                              *)
LEMMA PowerSends ==
  ASSUME TypeOK, w.r \in Rcpt, NEW ok \in BOOLEAN, PowerSend(ok)
  PROVE  /\ w.pc = "powerSend" /\ w'.r = w.r /\ w'.s = w.s /\ w'.new = w.new
         /\ w'.add = w.add /\ w'.drop = w.drop
         /\ \/ /\ w'.pc = "digest" /\ \A q \in Rcpt : Same(q)
            \/ /\ w'.pc = "powerSave"
               /\ told'[w.r].down = (told[w.r].down \cup w.add) \ w.drop
               /\ told'[w.r].pwr = w.new.pwr
               /\ st' = st
               /\ \A q \in Rcpt \ {w.r} : Same(q)
<1>0. w \in Thread /\ told \in [Rcpt -> Told]
  BY DEF TypeOK
<1>1. w.pc = "powerSend" /\ st' = st
  BY DEF PowerSend, At
<1>2. CASE ok
  <2> DEFINE x == [told[w.r] EXCEPT !.pwr = w.new.pwr, !.down = (@ \cup w.add) \ w.drop]
  <2>1. x.down = (told[w.r].down \cup w.add) \ w.drop /\ x.pwr = w.new.pwr
    BY <1>0 DEF Told
  <2>2. told' = [told EXCEPT ![w.r] = x] /\ w' = [w EXCEPT !.pc = "powerSave"]
    BY <1>2 DEF PowerSend, Tell, To, Go
  <2> HIDE DEF x
  <2> QED BY <1>0, <1>1, <2>1, <2>2 DEF Thread, Same
<1>3. CASE ~ok
  BY <1>0, <1>1, <1>3 DEF PowerSend, To, Go, Thread, Same
<1> QED BY <1>2, <1>3

(* The save after a delivered power message. *)
LEMMA PowerSaves ==
  ASSUME TypeOK, w.r \in Rcpt, PowerSave
  PROVE  /\ w.pc = "powerSave" /\ w'.pc = "digest" /\ w'.r = w.r
         /\ w'.s = st'[w.r] /\ told' = told
         /\ st'[w.r].off = (Reported \cup w.add) \ w.drop
         /\ st'[w.r].pwr = w.new.pwr
         /\ \A q \in Rcpt \ {w.r} : Same(q)
<1>0. w \in Thread /\ w.new \in State /\ st \in [Rcpt -> State]
  BY DEF TypeOK, Thread
<1> DEFINE s == [w.new EXCEPT !.off = (Reported \cup w.add) \ w.drop]
<1>1. s.off = (Reported \cup w.add) \ w.drop /\ s.pwr = w.new.pwr
  BY <1>0 DEF State
<1>2. w.pc = "powerSave" /\ told' = told
  BY DEF PowerSave, At
<1>3. w' = [w EXCEPT !.pc = "digest", !.s = s] /\ st' = [st EXCEPT ![w.r] = s]
  BY DEF PowerSave, Go, Save, Reported, First
<1> HIDE DEF s
<1> QED BY <1>0, <1>1, <1>2, <1>3 DEF Thread, Same

(* Reading for a digest changes no state and tells nobody. *)
LEMMA DigestReads ==
  ASSUME TypeOK, Digest \/ ReadBack \/ ReadEvents \/ ReadLast
  PROVE  /\ w.pc \in {"digest", "back", "events", "last"}
         /\ st' = st /\ told' = told
         /\ \/ w'.pc = "next"
            \/ w'.r = w.r /\ w'.s = w.s
  BY IdleThreadType DEF Digest, ReadBack, ReadEvents, ReadLast, At, Go, NextRecipient, TypeOK, Thread

(* The devices a recipient takes for offline after a digest. *)
DownAfter(D) == (D \cup IF "offline" \in w.lines THEN NewOff ELSE {})
                   \ IF "online" \in w.lines THEN w.back ELSE {}

(* A digest tells of devices as its lines say, and of no container. *)
LEMMA DigestSends ==
  ASSUME TypeOK, w.r \in Rcpt, NEW ok \in BOOLEAN, DigestSend(ok)
  PROVE  /\ w.pc = "send" /\ w' = [w EXCEPT !.pc = "save"] /\ st' = st
         /\ \A q \in Rcpt : /\ told'[q].pwr = told[q].pwr
                            /\ q # w.r => Same(q)
         /\ ok => told'[w.r].down = DownAfter(told[w.r].down)
<1>0. w \in Thread /\ told \in [Rcpt -> Told]
  BY DEF TypeOK
<1>1. w.pc = "send" /\ st' = st /\ w' = [w EXCEPT !.pc = "save"]
  BY DEF DigestSend, At, To, Go
<1> DEFINE x == Digested(told[w.r])
<1>2. x.down = DownAfter(told[w.r].down) /\ x.pwr = told[w.r].pwr
  BY <1>0 DEF Digested, Told, DownAfter
<1>3. told' = IF ok THEN [told EXCEPT ![w.r] = x] ELSE told
  BY DEF DigestSend, Tell
<1> HIDE DEF x
<1>4. \A q \in Rcpt : /\ told'[q].pwr = told[q].pwr
                      /\ q # w.r => Same(q)
  BY <1>0, <1>1, <1>2, <1>3 DEF Same
<1>5. ok => told'[w.r].down = DownAfter(told[w.r].down)
  BY <1>0, <1>2, <1>3
<1> QED BY <1>1, <1>4, <1>5

(* The save; the first one is the baseline. *)
LEMMA DigestSaves ==
  ASSUME TypeOK, w.r \in Rcpt, DigestSave
  PROVE  /\ w.pc = "save" /\ w'.pc = "next" /\ st'[w.r] = w.new
         /\ told'[w.r].down = IF First THEN w.new.off ELSE told[w.r].down
         /\ told'[w.r].pwr = told[w.r].pwr
         /\ \A q \in Rcpt \ {w.r} : Same(q)
<1>0. st \in [Rcpt -> State] /\ told \in [Rcpt -> Told]
  BY DEF TypeOK
<1>1. w.pc = "save" /\ st' = [st EXCEPT ![w.r] = w.new] /\ NextRecipient
  BY DEF DigestSave, At, Save
<1>2. w'.pc = "next"
  BY <1>1, IdleThreadType DEF NextRecipient, Go, Thread
<1> DEFINE x == [told[w.r] EXCEPT !.down = w.new.off, !.ev = 1..w.new.ev,
                                  !.low = InEpisode(farm, w.seen)]
<1>3. x.down = w.new.off /\ x.pwr = told[w.r].pwr
  BY <1>0 DEF Told
<1>4. told' = IF First THEN [told EXCEPT ![w.r] = x] ELSE told
  BY DEF DigestSave, Tell
<1> HIDE DEF x
<1> QED BY <1>0, <1>1, <1>2, <1>3, <1>4 DEF Same

-----------------------------------------------------------------------------
(* The copy *)

(* The steps by what they do, with the recipient they do it for. *)
LEMMA StepKinds ==
  ASSUME TypeOK, CopyIsSaved, [Next]_vars
  PROVE  \/ w' = w /\ \A r \in Rcpt : Same(r)
         \/ \E r \in Rcpt : StartTick \/ EndTick \/ Pick(r)
         \/ /\ w.r \in Rcpt
            /\ \/ \E ok \in Outcome : Daily \/ DailySend(ok) \/ DailySave
               \/ PowerScan \/ PowerCheck
               \/ \E ok \in Outcome : PowerSend(ok)
               \/ PowerSave
               \/ Digest \/ ReadBack \/ ReadEvents \/ ReadLast
               \/ \E ok \in Outcome : DigestSend(ok)
               \/ DigestSave
         \/ Rcpt = {} /\ (StartTick \/ EndTick)
         \/ Crash
<1>1. w.r \in Rcpt \/ w.pc \in {"idle", "next"}
  BY DEF CopyIsSaved
<1>2. Outcome # {} /\ Outcome \subseteq BOOLEAN
  BY DEF Outcome
<1>3. /\ Daily => w.pc = "daily"
      /\ DailySave => w.pc = "dailySave"
      /\ PowerScan => w.pc = "power"
      /\ PowerCheck => w.pc = "powerCheck"
      /\ PowerSave => w.pc = "powerSave"
      /\ Digest => w.pc = "digest"
      /\ ReadBack => w.pc = "back"
      /\ ReadEvents => w.pc = "events"
      /\ ReadLast => w.pc = "last"
      /\ DigestSave => w.pc = "save"
  BY DEF Daily, DailySave, PowerScan, PowerCheck, PowerSave, Digest, ReadBack, ReadEvents,
         ReadLast, DigestSave, At
<1>4. \A ok \in Outcome : /\ DailySend(ok) => w.pc = "dailySend"
                          /\ PowerSend(ok) => w.pc = "powerSend"
                          /\ DigestSend(ok) => w.pc = "send"
  BY DEF DailySend, PowerSend, DigestSend, At
<1>5. CASE \/ Clock
           \/ \E f \in [Dev -> Opt(Feed)], n \in 0..MaxEv : SyncCommit(f, n)
           \/ \E r \in Rcpt, p \in Prefs : SetPrefs(r, p)
           \/ UNCHANGED vars
  BY <1>5, OthersAct
<1>6. CASE Crash \/ StartTick \/ EndTick \/ \E r \in Rcpt : Pick(r)
  BY <1>6
<1>7. CASE \/ Daily \/ DailySave \/ PowerScan \/ PowerCheck \/ PowerSave
           \/ Digest \/ ReadBack \/ ReadEvents \/ ReadLast \/ DigestSave
  <2>1. w.r \in Rcpt
    BY <1>1, <1>3, <1>7
  <2> QED BY <2>1, <1>2, <1>7
<1>8. CASE \E ok \in Outcome : Send(ok)
  <2>1. w.r \in Rcpt
    BY <1>1, <1>4, <1>8 DEF Send
  <2> QED BY <2>1, <1>8 DEF Send
<1> QED BY <1>5, <1>6, <1>7, <1>8 DEF Next, ThreadStep

(* CopyStep: the thread's copy of a state is the saved state until it is saved. *)
LEMMA CopyStep ==
  ASSUME TypeOK, CopyIsSaved, [Next]_vars
  PROVE  CopyIsSaved'
<1> USE DEF CopyIsSaved
<1>1. CASE w' = w /\ \A r \in Rcpt : Same(r)
  BY <1>1 DEF Same
<1>2. ASSUME NEW r \in Rcpt, StartTick \/ EndTick \/ Pick(r)
      PROVE  CopyIsSaved'
  BY <1>2, PassActs DEF Same
<1>3. ASSUME w.r \in Rcpt, NEW ok \in BOOLEAN, Daily \/ DailySend(ok) \/ DailySave
      PROVE  CopyIsSaved'
  BY <1>3, DailyActs
<1>4. CASE w.r \in Rcpt /\ (PowerScan \/ PowerCheck)
  BY <1>4, PowerLooks
<1>5. ASSUME w.r \in Rcpt, NEW ok \in BOOLEAN, PowerSend(ok)
      PROVE  CopyIsSaved'
  BY <1>5, PowerSends DEF Same
<1>6. CASE w.r \in Rcpt /\ PowerSave
  BY <1>6, PowerSaves
<1>7. CASE w.r \in Rcpt /\ (Digest \/ ReadBack \/ ReadEvents \/ ReadLast)
  BY <1>7, DigestReads
<1>8. ASSUME w.r \in Rcpt, NEW ok \in BOOLEAN, DigestSend(ok)
      PROVE  CopyIsSaved'
  <2>1. w'.r = w.r /\ w'.s = w.s
    BY <1>8, DigestSends DEF TypeOK, Thread
  <2> QED BY <1>8, <2>1, DigestSends
<1>9. CASE w.r \in Rcpt /\ DigestSave
  BY <1>9, DigestSaves
<1>10. CASE StartTick \/ EndTick \/ Crash
  <2>1. IdleThread.pc = "idle" /\ IdleThread \in Thread
    BY IdleThreadType DEF IdleThread
  <2> QED BY <1>10, <2>1 DEF StartTick, EndTick, Crash, Go, Thread
<1>11. Outcome \subseteq BOOLEAN
  BY DEF Outcome
<1> QED BY <1>1, <1>2, <1>3, <1>4, <1>5, <1>6, <1>7, <1>8, <1>9, <1>10, <1>11, StepKinds

-----------------------------------------------------------------------------
(* Power messages *)

(* No step makes a saved set of dark containers differ from what was told. *)
LEMMA PowerStep ==
  ASSUME TypeOK, PowerInv, ~MayCrash, [Next]_vars
  PROVE  PowerInv'
<1>0. CopyIsSaved /\ CopyIsSaved'
  BY CopyStep DEF PowerInv
<1> SUFFICES OthersPower' /\ PowerSent' /\ PowerKept'
  BY <1>0 DEF PowerInv
<1> USE DEF PowerInv, OthersPower, PowerSent, PowerKept
<1>1. CASE w' = w /\ \A r \in Rcpt : Same(r)
  BY <1>0, <1>1 DEF Same, CopyIsSaved
<1>2. ASSUME NEW r \in Rcpt, StartTick \/ EndTick \/ Pick(r)
      PROVE  OthersPower' /\ PowerSent' /\ PowerKept'
  BY <1>2, PassActs DEF Same
<1>3. ASSUME w.r \in Rcpt, NEW ok \in BOOLEAN, Daily \/ DailySend(ok) \/ DailySave
      PROVE  OthersPower' /\ PowerSent' /\ PowerKept'
  BY <1>0, <1>3, DailyActs
<1>4. CASE w.r \in Rcpt /\ (PowerScan \/ PowerCheck)
  BY <1>0, <1>4, PowerLooks DEF Same
<1>5. ASSUME w.r \in Rcpt, NEW ok \in BOOLEAN, PowerSend(ok)
      PROVE  OthersPower' /\ PowerSent' /\ PowerKept'
  BY <1>5, PowerSends DEF Same
<1>6. CASE w.r \in Rcpt /\ PowerSave
  BY <1>6, PowerSaves DEF Same
<1>7. CASE w.r \in Rcpt /\ (Digest \/ ReadBack \/ ReadEvents \/ ReadLast)
  <2>1. w'.pc \in {"events", "last", "send", "save"} => w'.new.pwr = w'.s.pwr
    <3>0. w \in Thread /\ w.new \in State
      BY DEF TypeOK, Thread
    <3>1. CASE Digest
      BY <3>0, <3>1, IdleThreadType DEF Digest, NextRecipient, Go, Thread
    <3>2. CASE ReadBack
      BY <3>0, <3>2 DEF ReadBack, Go, Thread
    <3>3. CASE ReadEvents
      BY <3>0, <3>3 DEF ReadEvents, At, Go, Thread
    <3>4. CASE ReadLast
      <4>1. CASE NextRecipient
        BY <4>1, IdleThreadType DEF NextRecipient, Go, Thread
      <4>2. CASE w'.s = w.s /\ w'.new = [w.new EXCEPT !.ev = ev]
        BY <3>0, <3>4, <4>2 DEF ReadLast, At, State
      <4> QED BY <3>0, <3>4, <4>1, <4>2, ZenonT(60) DEF ReadLast, Go, Thread
    <3> QED BY <1>7, <3>1, <3>2, <3>3, <3>4
  <2>2. w'.pc # "powerSave" /\ w.pc # "powerSave"
    BY <1>7, IdleThreadType
       DEF Digest, ReadBack, ReadEvents, ReadLast, At, Go, NextRecipient, TypeOK, Thread
  <2> QED BY <1>7, <2>1, <2>2, DigestReads
<1>8. ASSUME w.r \in Rcpt, NEW ok \in BOOLEAN, DigestSend(ok)
      PROVE  OthersPower' /\ PowerSent' /\ PowerKept'
  <2>1. w'.pc = "save" /\ w'.r = w.r /\ w'.s = w.s /\ w'.new = w.new
    BY <1>8, DigestSends DEF TypeOK, Thread
  <2> QED BY <1>8, <2>1, DigestSends
<1>9. CASE w.r \in Rcpt /\ DigestSave
  BY <1>0, <1>9, DigestSaves DEF Same, CopyIsSaved
<1>10. CASE StartTick \/ EndTick
  <2>1. IdleThread.pc = "idle" /\ IdleThread \in Thread
    BY IdleThreadType DEF IdleThread
  <2> QED BY <1>10, <2>1 DEF StartTick, EndTick, At, Go, Thread
<1>11. Outcome \subseteq BOOLEAN /\ ~Crash
  BY DEF Outcome, Crash
<1> QED BY <1>0, <1>1, <1>2, <1>3, <1>4, <1>5, <1>6, <1>7, <1>8, <1>9, <1>10, <1>11, StepKinds

(* At the start nothing is saved and nothing was told. *)
LEMMA InitReported == Init => TypeInv /\ DownInv /\ PowerInv
<1> SUFFICES ASSUME Init PROVE TypeInv /\ DownInv /\ PowerInv
  OBVIOUS
<1>1. w.pc = "idle"
  BY DEF Init, IdleThread
<1>2. \A r \in Rcpt : st[r].off = Null /\ st[r].pwr = Null /\ told[r].down = {}
  BY DEF Init, NoState
<1>3. TypeInv
  BY <1>1, InitType DEF TypeInv, PowerBaseline, NewPower, NewBaseline
<1> QED
  BY <1>1, <1>2, <1>3
     DEF DownInv, PowerInv, CopyIsSaved, OthersSaved, PowerAhead, DigestAhead, DigestIsNews,
         LinesSayAll, OthersPower, PowerSent, PowerKept, Rep

(* The two halves of the type invariant's step together. *)
LEMMA TypeStep == TypeInv /\ [Next]_vars => TypeInv'
  BY StepType, StepParts DEF TypeInv

(* However often calls to Telegram fail, a pass that is not cut short leaves  *)
(* no recipient with a container saved as dark, or as powered again, that he  *)
(* was not told of.                                                           *)
THEOREM PowerNeverLost ==
  ASSUME ~MayCrash
  PROVE  Spec => []PowerSavedIsTold
<1> DEFINE IInv == TypeInv /\ PowerInv
<1>1. Init => IInv
  BY InitReported
<1>2. IInv /\ [Next]_vars => IInv'
  BY TypeStep, PowerStep DEF TypeInv
<1>3. IInv => PowerSavedIsTold
  BY DEF PowerInv, OthersPower, PowerSavedIsTold, Between
<1> QED BY <1>1, <1>2, <1>3, PTL DEF Spec

-----------------------------------------------------------------------------
(* Digests *)

(* Everybody wants to hear of devices that go and come back, and nothing sent *)
(* is lost.                                                                   *)
AllHear == /\ ~MayCrash /\ ~MayFail
           /\ \A p \in Prefs : {"offline", "online"} \subseteq p.types

(* No step makes the saved offline devices differ from what was told. *)
LEMMA DownStep ==
  ASSUME TypeInv, DownInv, AllHear, [Next]_vars
  PROVE  DownInv'
<1>0. TypeOK /\ CopyIsSaved /\ CopyIsSaved'
  BY CopyStep DEF DownInv, TypeInv
<1> DEFINE Rest == OthersSaved /\ PowerAhead /\ DigestAhead /\ DigestIsNews /\ LinesSayAll
<1> SUFFICES Rest'
  BY <1>0 DEF DownInv
<1>a. w \in Thread /\ w.new \in State /\ w.s \in State /\ w.off \in SUBSET Dev
  BY <1>0 DEF TypeOK, Thread
<1>b. Reported = Rep(w.s.off)
  BY DEF Reported, First, Rep
<1> USE DEF DownInv, OthersSaved, PowerAhead, DigestAhead, DigestIsNews, LinesSayAll
<1>1. CASE w' = w /\ \A r \in Rcpt : Same(r)
  BY <1>0, <1>1 DEF Same, CopyIsSaved, Reported, First, NewOff
<1>2. ASSUME NEW r \in Rcpt, StartTick \/ EndTick \/ Pick(r)
      PROVE  Rest'
  BY <1>0, <1>2, PassActs DEF Same
<1>3. ASSUME w.r \in Rcpt, NEW ok \in BOOLEAN, Daily \/ DailySend(ok) \/ DailySave
      PROVE  Rest'
  BY <1>0, <1>3, DailyActs
<1>4. CASE w.r \in Rcpt /\ (PowerScan \/ PowerCheck)
  BY <1>0, <1>4, PowerLooks DEF Same
<1>5. ASSUME w.r \in Rcpt, NEW ok \in BOOLEAN, PowerSend(ok)
      PROVE  Rest'
  BY <1>0, <1>5, <1>b, PowerSends DEF Same, Reported, First, CopyIsSaved
<1>6. CASE w.r \in Rcpt /\ PowerSave
  <2>1. st'[w.r].off \in SUBSET Dev
    BY <1>0, <1>6, <1>a, PowerSaves DEF Reported, First, State, Opt, Thread
  <2>2. Rep(st'[w.r].off) = st'[w.r].off
    BY <2>1, NotifyAssumption DEF Rep
  <2> QED BY <1>0, <1>6, <2>2, PowerSaves DEF Same
<1>7. CASE w.r \in Rcpt /\ (Digest \/ ReadBack \/ ReadEvents \/ ReadLast)
  <2>0. st' = st /\ told' = told /\ w.pc \in {"digest", "back", "events", "last"}
    BY <1>0, <1>7, DigestReads
  <2>1. CASE Digest
    <3>1. w'.pc \in {"next", "back"}
      BY <1>a, <2>1, IdleThreadType DEF Digest, NextRecipient, Go, Thread
    <3> QED BY <2>0, <3>1
  <2>2. CASE ReadBack
    <3>1. /\ w'.pc = "events" /\ w'.s = w.s /\ w'.off = w.off
          /\ w'.back = (Reported \ w.off) \ Still /\ w'.new.off = w.off \cup Still
      BY <1>a, <2>2 DEF ReadBack, Gone, Kept, Go, Thread
    <3>2. Still \subseteq Reported \ w.off
      BY DEF Still, Gone
    <3>3. Reported' = Reported /\ NewOff' = NewOff
      BY <3>1 DEF Reported, First, NewOff
    <3>4. w.off \cup Still = (Reported \cup NewOff) \ ((Reported \ w.off) \ Still)
      BY <3>2 DEF NewOff
    <3>5. DigestIsNews'
      BY <3>1, <3>3, <3>4
    <3> QED BY <2>0, <3>1, <3>5
  <2>3. CASE ReadEvents
    <3>1. /\ w.pc = "events" /\ w'.pc = "last" /\ w'.s = w.s /\ w'.off = w.off
          /\ w'.back = w.back /\ w'.new = w.new
      BY <1>a, <2>3 DEF ReadEvents, At, Go, Thread
    <3>2. Reported' = Reported /\ NewOff' = NewOff
      BY <3>1 DEF Reported, First, NewOff
    <3> QED BY <2>0, <3>1, <3>2
  <2>4. CASE ReadLast
    <3>1. CASE NextRecipient
      <4>1. w'.pc = "next"
        BY <3>1, IdleThreadType DEF NextRecipient, Go, Thread
      <4> QED BY <2>0, <4>1
    <3> DEFINE has == [offline |-> NewOff, online |-> w.back, lowhash |-> NewLow, pool |-> w.pool]
               lines == IF First THEN {} ELSE {x \in DOMAIN has \cap w.p.types : has[x] # {}}
    <3>2. CASE ~NextRecipient
      <4> DEFINE done == [w EXCEPT !.new.ev = ev, !.lines = lines]
      <4>a. /\ w.pc = "last"
            /\ \/ w' = [done EXCEPT !.pc = "send"] /\ lines # {}
               \/ w' = [done EXCEPT !.pc = "save"] /\ (First \/ lines = {})
        BY <2>4, <3>2 DEF ReadLast, At, Go
      <4> HIDE DEF lines
      <4>b. /\ w'.s = w.s /\ w'.r = w.r /\ w'.off = w.off /\ w'.back = w.back
            /\ w'.lines = lines /\ w'.new = [w.new EXCEPT !.ev = ev]
        BY <1>a, <4>a DEF Thread
      <4>c. \/ w'.pc = "send" /\ lines # {}
            \/ w'.pc = "save" /\ (First \/ lines = {})
        BY <1>a, <4>a DEF Thread
      <4>1. /\ w.pc = "last" /\ w'.s = w.s /\ w'.r = w.r /\ w'.off = w.off /\ w'.back = w.back
            /\ w'.lines = lines /\ w'.new = [w.new EXCEPT !.ev = ev]
            /\ \/ w'.pc = "send" /\ lines # {}
               \/ w'.pc = "save" /\ (First \/ lines = {})
        BY <4>a, <4>b, <4>c
      <4> USE DEF lines
      <4>2. w'.new.off = w.new.off
        BY <1>a, <4>1 DEF State
      <4>3. Reported' = Reported /\ NewOff' = NewOff /\ (First' <=> First)
        BY <4>1 DEF Reported, First, NewOff
      <4>4. "offline" \in w.p.types /\ "online" \in w.p.types
        BY <1>a DEF AllHear, Thread
      <4>5. ~First => /\ "offline" \in lines \/ NewOff = {}
                      /\ "online" \in lines \/ w.back = {}
        BY <4>4
      <4>6. First => lines = {}
        OBVIOUS
      <4> HIDE DEF lines
      <4>7. w.new.off = (Reported \cup NewOff) \ w.back
        BY <4>1
      <4>8. lines = {} => First \/ w.new.off = Reported
        BY <4>5, <4>7
      <4>9. ~First => told[w.r].down = Reported
        BY <1>0, <1>7, <1>b, <4>1 DEF CopyIsSaved
      <4>10. DigestAhead'
        BY <2>0, <4>1, <4>2, <4>3, <4>8, <4>9
      <4>11. DigestIsNews' /\ LinesSayAll'
        BY <4>1, <4>2, <4>3, <4>5, <4>6
      <4>12. OthersSaved' /\ PowerAhead'
        BY <2>0, <4>1
      <4> QED BY <4>10, <4>11, <4>12
    <3> QED BY <3>1, <3>2
  <2> QED BY <1>7, <2>1, <2>2, <2>3, <2>4
<1>8. CASE w.r \in Rcpt /\ DigestSend(TRUE)
  <2>1. w.pc = "send" /\ w'.pc = "save" /\ w'.r = w.r /\ w'.s = w.s /\ w'.new = w.new
    BY <1>0, <1>8, DigestSends DEF TypeOK, Thread
  <2>2. told'[w.r].down = DownAfter(told[w.r].down)
    BY <1>0, <1>8, DigestSends
  <2>3. told[w.r].down = Reported
    BY <1>0, <1>8, <1>b, <2>1 DEF CopyIsSaved
  <2>4. DownAfter(Reported) = w.new.off
    BY <2>1 DEF DownAfter
  <2>5. \A q \in Rcpt \ {w.r} : Same(q)
    BY <1>0, <1>8, DigestSends
  <2> QED BY <2>1, <2>2, <2>3, <2>4, <2>5 DEF Same
<1>9. CASE w.r \in Rcpt /\ DigestSave
  <2>1. w.new.off \in SUBSET Dev
    BY <1>0, <1>9, <1>a, DigestSaves DEF TypeInv, NewBaseline, State, Opt
  <2>2. Rep(w.new.off) = w.new.off
    BY <2>1, NotifyAssumption DEF Rep
  <2> QED BY <1>0, <1>9, <2>2, DigestSaves DEF Same
<1>10. CASE StartTick \/ EndTick
  <2>1. IdleThread.pc = "idle" /\ IdleThread \in Thread
    BY IdleThreadType DEF IdleThread
  <2> QED BY <1>10, <2>1 DEF StartTick, EndTick, At, Go, Thread
<1>11. Outcome = {TRUE} /\ ~Crash
  BY DEF Outcome, Crash, AllHear
<1> QED BY <1>0, <1>1, <1>2, <1>3, <1>4, <1>5, <1>6, <1>7, <1>8, <1>9, <1>10, <1>11, StepKinds

(* When all messages arrive, however the sync changes the farm between the    *)
(* reads of a pass, what a recipient's state counts as reported is what he    *)
(* was last told.                                                             *)
THEOREM DevicesSavedAreTold ==
  ASSUME AllHear
  PROVE  Spec => []SavedIsTold
<1> DEFINE IInv == TypeInv /\ DownInv
<1>1. Init => IInv
  BY InitReported
<1>2. IInv /\ [Next]_vars => IInv'
  BY TypeStep, DownStep
<1>3. IInv => SavedIsTold
  BY DEF DownInv, OthersSaved, SavedIsTold, Between, Rep
<1> QED BY <1>1, <1>2, <1>3, PTL DEF Spec

(* Then no digest repeats an outage he knows of, or says back of a device he  *)
(* was never told of.                                                         *)
THEOREM NoRepeatedOutage ==
  ASSUME AllHear
  PROVE  Spec => OfflineThenBack
<1> DEFINE IInv == TypeInv /\ DownInv
           News == \A ok \in BOOLEAN : DigestSend(ok) =>
                      /\ "offline" \in w.lines => NewOff \cap told[w.r].down = {}
                      /\ "online" \in w.lines => w.back \subseteq told[w.r].down
<1>1. Init => IInv
  BY InitReported
<1>2. IInv /\ [Next]_vars => IInv'
  BY TypeStep, DownStep
<1>3. IInv /\ [Next]_vars => [News]_vars
  <2> SUFFICES ASSUME IInv, NEW ok \in BOOLEAN, DigestSend(ok)
               PROVE  /\ NewOff \cap told[w.r].down = {}
                      /\ w.back \subseteq told[w.r].down
    OBVIOUS
  <2>1. w.pc = "send"
    BY DEF DigestSend, At
  <2>2. told[w.r].down = Reported
    BY <2>1 DEF DownInv, OthersSaved, CopyIsSaved, Reported, First, Rep
  <2>3. w.back \subseteq Reported
    BY <2>1 DEF DownInv, DigestIsNews
  <2> QED BY <2>2, <2>3 DEF NewOff
<1> QED BY <1>1, <1>2, <1>3, PTL DEF Spec, OfflineThenBack

-----------------------------------------------------------------------------
(* What is told once *)

Reading == {"back", "events", "last", "send", "save"}

(* What a power message saves keeps the day, the cursor and the alarms of the *)
(* copy; what a digest saves keeps the day, and has the alarms of its snapshot.*)
PowerCopies  == w.pc \in {"powerSend", "powerSave"} => /\ w.new.daily = w.s.daily
                                                       /\ w.new.ev = w.s.ev
                                                       /\ w.new.low = w.s.low
DigestCopies == w.pc \in Reading \ {"back"} => w.new.daily = w.s.daily /\ w.new.low = w.low

(* The time up to which a pass, or the time between passes, has come. *)
Upto      == IF w.pc = "idle" THEN now ELSE w.t
PassBegan == w.t <= now

OnceInv == CopyIsSaved /\ PowerCopies /\ DigestCopies /\ PassBegan

(* Nothing but the thread changes a state or the thread; a commit of the sync *)
(* only ends episodes, and neither takes rows nor events away.                *)
LEMMA OthersGo ==
  ASSUME TypeOK,
         \/ Clock
         \/ \E f \in [Dev -> Opt(Feed)], n \in 0..MaxEv : SyncCommit(f, n)
         \/ \E r \in Rcpt, p \in Prefs : SetPrefs(r, p)
         \/ UNCHANGED vars
  PROVE  /\ w' = w /\ st' = st /\ now' >= now /\ ev' >= ev
         /\ \A d \in Dev : farm[d] # Null => farm'[d] # Null
         /\ \A r \in Rcpt : /\ told'[r].daily = told[r].daily /\ told'[r].ev = told[r].ev
                            /\ \/ farm' = farm /\ told'[r].low = told[r].low
                               \/ told'[r].low = InEpisode(farm', told[r].low)
<1>0. now \in Nat /\ ev \in Nat
  BY DEF TypeOK, Time
<1>1. CASE Clock \/ UNCHANGED vars
  BY <1>0, <1>1 DEF Clock, vars
<1>2. CASE \E r \in Rcpt, p \in Prefs : SetPrefs(r, p)
  BY <1>0, <1>2 DEF SetPrefs
<1>3. ASSUME NEW f \in [Dev -> Opt(Feed)], NEW n \in 0..MaxEv, SyncCommit(f, n)
      PROVE  /\ w' = w /\ st' = st /\ now' >= now /\ ev' >= ev
             /\ \A d \in Dev : farm[d] # Null => farm'[d] # Null
             /\ \A r \in Rcpt : /\ told'[r].daily = told[r].daily /\ told'[r].ev = told[r].ev
                                /\ told'[r].low = InEpisode(farm', told[r].low)
  <2>1. farm' = [d \in Dev |-> IF f[d] = Null THEN farm[d] ELSE Written(farm[d], f[d])]
    BY <1>3 DEF SyncCommit
  <2>2. ASSUME NEW d \in Dev, farm[d] # Null PROVE farm'[d] # Null
    <3>1. CASE f[d] = Null
      BY <2>1, <2>2, <3>1
    <3>2. CASE f[d] # Null
      <4>1. Written(farm[d], f[d]) \in Row
        BY <3>2, WrittenType DEF TypeOK, Opt
      <4>2. farm'[d] = Written(farm[d], f[d])
        BY <2>1, <3>2
      <4> QED BY <4>1, <4>2, NotifyAssumption
    <3> QED BY <3>1, <3>2
  <2>3. w' = w /\ st' = st /\ now' >= now /\ ev' >= ev /\ told' = StayTold(farm')
    BY <1>0, <1>3 DEF SyncCommit
  <2>4. \A r \in Rcpt : /\ StayTold(farm')[r].daily = told[r].daily
                        /\ StayTold(farm')[r].ev = told[r].ev
                        /\ StayTold(farm')[r].low = InEpisode(farm', told[r].low)
    BY DEF StayTold, TypeOK, Told
  <2> QED BY <2>2, <2>3, <2>4
<1> QED BY <1>1, <1>2, <1>3

(* A pass starts, goes on to a recipient, ends or dies. *)
LEMMA PassGoes ==
  ASSUME TypeOK, PassBegan,
         StartTick \/ EndTick \/ Crash \/ \E r \in Rcpt : Pick(r)
  PROVE  /\ UNCHANGED <<World, st, told>>
         /\ w'.pc \in {"idle", "next", "daily"}
         /\ PassBegan' /\ Upto <= Upto'
<1>0. /\ IdleThread \in Thread /\ IdleThread.pc = "idle" /\ IdleThread.t = 0
      /\ now \in Nat /\ w.t \in Nat
  BY IdleThreadType DEF IdleThread, TypeOK, Thread, Time
<1>1. UNCHANGED <<World, st, told>>
  BY DEF StartTick, EndTick, Crash, Pick
<1>2. CASE StartTick
  <2>1. w.pc = "idle" /\ w'.pc = "next" /\ w'.t = now
    BY <1>0, <1>2 DEF StartTick, At, Go, Thread
  <2> QED BY <1>0, <1>1, <2>1 DEF PassBegan, Upto, World
<1>3. CASE EndTick \/ Crash
  <2>1. w'.pc = "idle" /\ w'.t = 0
    BY <1>0, <1>3 DEF EndTick, Crash, Go
  <2> QED BY <1>0, <1>1, <2>1 DEF PassBegan, Upto, World
<1>4. ASSUME NEW r \in Rcpt, Pick(r)
      PROVE  w.pc = "next" /\ w'.pc \in {"next", "daily"} /\ w'.t = w.t
  BY <1>0, <1>4 DEF Pick, At, Go, Thread
<1> QED BY <1>0, <1>1, <1>2, <1>3, <1>4 DEF PassBegan, Upto, World

(* A step for a recipient is of one pass and one recipient. *)
Working ==
    \/ Daily \/ DailySave \/ PowerScan \/ PowerCheck \/ PowerSave
    \/ Digest \/ ReadBack \/ ReadEvents \/ ReadLast \/ DigestSave
    \/ \E ok \in Outcome : Send(ok)

LEMMA WorkGoes ==
  ASSUME TypeOK, PassBegan, Working
  PROVE  /\ UNCHANGED World
         /\ w.pc \notin {"idle", "next"} /\ w'.pc # "idle" /\ w'.t = w.t
         /\ w'.pc # "next" => w'.r = w.r /\ w'.p = w.p
         /\ PassBegan' /\ Upto' = Upto
<1>0. w \in Thread /\ IdleThread \in Thread
  BY IdleThreadType DEF TypeOK
<1> DEFINE Goes == /\ UNCHANGED World
                   /\ w.pc \notin {"idle", "next"} /\ w'.pc # "idle" /\ w'.t = w.t
                   /\ w'.pc # "next" => w'.r = w.r /\ w'.p = w.p
<1>1. NextRecipient => w'.pc = "next" /\ w'.t = w.t
  BY <1>0 DEF NextRecipient, Go, Thread
<1>2. ASSUME Daily \/ DailySave PROVE Goes
  BY <1>0, <1>2 DEF Daily, DailySave, At, To, Go, Thread
<1>3. ASSUME PowerScan \/ PowerCheck \/ PowerSave PROVE Goes
  BY <1>0, <1>3 DEF PowerScan, PowerCheck, PowerSave, At, To, Go, Thread
<1>4. ASSUME Digest PROVE Goes
  BY <1>0, <1>1, <1>4 DEF Digest, At, Go, Thread
<1>5. ASSUME ReadBack \/ ReadEvents PROVE Goes
  BY <1>0, <1>5 DEF ReadBack, ReadEvents, At, Go, Thread
<1>6. ASSUME ReadLast PROVE Goes
  BY <1>0, <1>1, <1>6 DEF ReadLast, At, Go, Thread
<1>7. ASSUME DigestSave PROVE Goes
  BY <1>0, <1>1, <1>7 DEF DigestSave, At
<1>8. ASSUME NEW ok \in Outcome, Send(ok) PROVE Goes
  BY <1>0, <1>8 DEF Send, DailySend, PowerSend, DigestSend, At, To, Go, Thread
<1>9. Goes
  <2> HIDE DEF Goes
  <2> QED BY <1>2, <1>3, <1>4, <1>5, <1>6, <1>7, <1>8 DEF Working
<1> QED BY <1>9 DEF PassBegan, Upto, World

(* No step makes what is to be saved forget the day or the cursor. *)
LEMMA CopiesStep ==
  ASSUME TypeInv, PowerCopies, DigestCopies, [Next]_vars
  PROVE  PowerCopies' /\ DigestCopies'
<1> USE DEF PowerCopies, DigestCopies, Reading
<1>0. /\ w \in Thread /\ w.s \in State /\ w.new \in State /\ TypeOK
      /\ IdleThread \in Thread /\ IdleThread.pc = "idle"
  BY IdleThreadType DEF TypeInv, TypeOK, Thread, IdleThread
<1> DEFINE Calm == w'.pc \notin {"powerSend", "powerSave", "events", "last", "send", "save"}
<1>1. CASE w' = w
  BY <1>1
<1>2. CASE Calm
  BY <1>2
<1>3. ASSUME PowerCheck
      PROVE  PowerCopies' /\ DigestCopies'
  <2> DEFINE x == [w.s EXCEPT !.pwr = (@ \ Restored(w.s.pwr)) \cup w.fresh]
  <2>1. x.daily = w.s.daily /\ x.ev = w.s.ev /\ x.low = w.s.low
    BY <1>0 DEF State
  <2>2. \/ w'.pc = "digest"
        \/ w'.pc = "powerSend" /\ w'.new = x /\ w'.s = w.s
    BY <1>0, <1>3 DEF PowerCheck, To, Go, Thread
  <2> HIDE DEF x
  <2> QED BY <2>1, <2>2
<1>4. ASSUME NEW ok \in Outcome, Send(ok)
      PROVE  PowerCopies' /\ DigestCopies'
  <2>1. \/ w'.pc = "dailySave" \/ w'.pc = "digest"
        \/ w.pc = "powerSend" /\ w'.pc = "powerSave" /\ w'.s = w.s /\ w'.new = w.new
        \/ w.pc = "send" /\ w'.pc = "save" /\ w'.s = w.s /\ w'.new = w.new /\ w'.low = w.low
    BY <1>0, <1>4 DEF Send, DailySend, PowerSend, DigestSend, At, To, Go, Thread
  <2> QED BY <2>1
<1>5. ASSUME ReadBack \/ ReadEvents
      PROVE  PowerCopies' /\ DigestCopies'
  <2>1. CASE ReadBack
    <3>1. /\ w'.pc = "events" /\ w'.s = w.s /\ w'.low = w.low
          /\ w'.new = [off |-> Kept, low |-> w.low, ev |-> 0, last |-> w.t,
                       daily |-> w.s.daily, pwr |-> w.s.pwr]
      BY <1>0, <2>1 DEF ReadBack, Go, Thread
    <3> QED BY <3>1
  <2>2. CASE ReadEvents
    <3>1. /\ w.pc = "events" /\ w'.pc = "last" /\ w'.s = w.s /\ w'.new = w.new
          /\ w'.low = w.low
      BY <1>0, <2>2 DEF ReadEvents, At, Go, Thread
    <3> QED BY <3>1
  <2> QED BY <1>5, <2>1, <2>2
<1>6. ASSUME ReadLast
      PROVE  PowerCopies' /\ DigestCopies'
  <2>1. CASE NextRecipient
    BY <1>0, <2>1 DEF NextRecipient, Go, Thread
  <2>2. CASE ~NextRecipient
    <3>1. /\ w.pc = "last" /\ w'.pc \in {"send", "save"} /\ w'.s = w.s /\ w'.low = w.low
          /\ w'.new = [w.new EXCEPT !.ev = ev]
      BY <1>0, <1>6, <2>2, ZenonT(60) DEF ReadLast, At, Go, Thread
    <3>2. w'.new.daily = w.new.daily /\ w'.new.low = w.new.low
      BY <1>0, <3>1 DEF State
    <3> QED BY <3>1, <3>2
  <2> QED BY <2>1, <2>2
<1>7. ASSUME Daily \/ DailySave \/ PowerScan \/ PowerSave PROVE Calm
  BY <1>0, <1>7, ZenonT(60) DEF Daily, DailySave, PowerScan, PowerSave, To, Go, Thread
<1>8. ASSUME Digest \/ DigestSave PROVE Calm
  BY <1>0, <1>8, ZenonT(60) DEF Digest, DigestSave, NextRecipient, Go, Thread
<1>9. ASSUME StartTick \/ EndTick \/ Crash \/ \E r \in Rcpt : Pick(r) PROVE Calm
  <2>1. CASE StartTick \/ EndTick \/ Crash
    BY <1>0, <2>1 DEF StartTick, EndTick, Crash, Go, Thread
  <2>2. ASSUME NEW r \in Rcpt, Pick(r) PROVE w'.pc \in {"daily", "next"}
    BY <1>0, <2>2 DEF Pick, Go, Thread
  <2> QED BY <1>9, <2>1, <2>2
<1>10. ASSUME \/ Clock
              \/ \E f \in [Dev -> Opt(Feed)], n \in 0..MaxEv : SyncCommit(f, n)
              \/ \E r \in Rcpt, p \in Prefs : SetPrefs(r, p)
              \/ UNCHANGED vars
       PROVE  w' = w
  BY <1>0, <1>10, OthersGo
<1> HIDE DEF Calm
<1> QED BY <1>1, <1>2, <1>3, <1>4, <1>5, <1>6, <1>7, <1>8, <1>9, <1>10 DEF Next, ThreadStep

(* A step for a recipient counts another summary only by a delivered one, and *)
(* tells of events and alarms only by a digest or at the baseline.            *)
LEMMA WorkTells ==
  ASSUME TypeOK, CopyIsSaved, Working, NEW q \in Rcpt
  PROVE  /\ told'[q].daily = told[q].daily \/ (q = w.r /\ DailySend(TRUE))
         /\ \/ told'[q].ev = told[q].ev /\ told'[q].low = told[q].low
            \/ q = w.r /\ DigestSend(TRUE)
            \/ q = w.r /\ DigestSave /\ First
<1> DEFINE Tells == /\ told'[q].daily = told[q].daily \/ (q = w.r /\ DailySend(TRUE))
                    /\ \/ told'[q].ev = told[q].ev /\ told'[q].low = told[q].low
                       \/ q = w.r /\ DigestSend(TRUE)
                       \/ q = w.r /\ DigestSave /\ First
<1>0. told \in [Rcpt -> Told] /\ told[q] \in Told
  BY DEF TypeOK
<1>1. CASE told' = told
  BY <1>1
<1>2. ASSUME Daily \/ DailySave \/ PowerCheck \/ PowerSave \/ Digest \/ ReadBack \/ ReadEvents
             \/ ReadLast \/ (DigestSave /\ ~First)
      PROVE  told' = told
  BY <1>2 DEF Daily, DailySave, PowerCheck, PowerSave, Digest, ReadBack, ReadEvents, ReadLast,
              DigestSave
<1>3. ASSUME PowerScan PROVE Tells
  <2> DEFINE x == [told[w.r] EXCEPT !.pwr = Dark(w.t)]
  <2>1. told' = told \/ told' = [told EXCEPT ![w.r] = x]
    BY <1>3 DEF PowerScan, Tell
  <2>2. q = w.r => x.daily = told[q].daily /\ x.ev = told[q].ev /\ x.low = told[q].low
    BY <1>0 DEF Told
  <2> HIDE DEF x
  <2> QED BY <1>0, <2>1, <2>2
<1>4. ASSUME NEW ok \in Outcome, DailySend(ok) PROVE Tells
  <2> DEFINE x == [told[w.r] EXCEPT !.daily[Today(w.t)] = @ + 1]
  <2>1. (told' = told /\ ~ok) \/ (told' = [told EXCEPT ![w.r] = x] /\ ok)
    BY <1>4 DEF DailySend, Tell
  <2>2. q = w.r => x.ev = told[q].ev /\ x.low = told[q].low
    BY <1>0 DEF Told
  <2>3. ok => DailySend(TRUE)
    BY <1>4 DEF Outcome
  <2> HIDE DEF x
  <2> QED BY <1>0, <2>1, <2>2, <2>3
<1>5. ASSUME NEW ok \in Outcome, PowerSend(ok) PROVE Tells
  <2> DEFINE x == [told[w.r] EXCEPT !.pwr = w.new.pwr, !.down = (@ \cup w.add) \ w.drop]
  <2>1. told' = told \/ told' = [told EXCEPT ![w.r] = x]
    BY <1>5 DEF PowerSend, Tell
  <2>2. q = w.r => x.daily = told[q].daily /\ x.ev = told[q].ev /\ x.low = told[q].low
    BY <1>0 DEF Told
  <2> HIDE DEF x
  <2> QED BY <1>0, <2>1, <2>2
<1>6. ASSUME NEW ok \in Outcome, DigestSend(ok) PROVE Tells
  <2> DEFINE x == Digested(told[w.r])
  <2>1. (told' = told /\ ~ok) \/ (told' = [told EXCEPT ![w.r] = x] /\ ok)
    BY <1>6 DEF DigestSend, Tell
  <2>2. q = w.r => x.daily = told[q].daily
    BY <1>0 DEF Told, Digested
  <2>3. ok => DigestSend(TRUE)
    BY <1>6 DEF Outcome
  <2> HIDE DEF x
  <2> QED BY <1>0, <2>1, <2>2, <2>3
<1>7. ASSUME DigestSave, First PROVE Tells
  <2> DEFINE x == [told[w.r] EXCEPT !.down = w.new.off, !.ev = 1..w.new.ev,
                                    !.low = InEpisode(farm, w.seen)]
  <2>1. told' = [told EXCEPT ![w.r] = x]
    BY <1>7 DEF DigestSave, Tell
  <2>2. q = w.r => x.daily = told[q].daily
    BY <1>0 DEF Told
  <2> HIDE DEF x
  <2> QED BY <1>0, <1>7, <2>1, <2>2
<1> HIDE DEF Tells
<1>8. Tells
  <2>1. told' = told => Tells
    BY DEF Tells
  <2> QED BY <1>2, <1>3, <1>4, <1>5, <1>6, <1>7, <2>1 DEF Working, Send
<1> QED BY <1>8 DEF Tells

(* It changes the saved day only by ticking it off, and the cursor and the    *)
(* alarms only by saving a digest.                                            *)
LEMMA WorkSaves ==
  ASSUME TypeOK, CopyIsSaved, PowerCopies, DigestCopies, Working, NEW q \in Rcpt
  PROVE  /\ st'[q].daily = st[q].daily \/ (q = w.r /\ DailySave)
         /\ (st'[q].ev = st[q].ev /\ st'[q].low = st[q].low) \/ (q = w.r /\ DigestSave)
<1> DEFINE Saves == /\ st'[q].daily = st[q].daily \/ (q = w.r /\ DailySave)
                    /\ (st'[q].ev = st[q].ev /\ st'[q].low = st[q].low) \/ (q = w.r /\ DigestSave)
<1>0. st \in [Rcpt -> State] /\ st[q] \in State /\ w \in Thread /\ w.s \in State /\ w.new \in State
  BY DEF TypeOK, Thread
<1>1. st' = st => Saves
  OBVIOUS
<1>2. ASSUME Daily \/ PowerCheck \/ Digest \/ ReadBack \/ ReadEvents \/ ReadLast
             \/ \E ok \in Outcome : Send(ok)
      PROVE  st' = st
  BY <1>2 DEF Daily, PowerCheck, Digest, ReadBack, ReadEvents, ReadLast, Send, DailySend,
              PowerSend, DigestSend
<1>3. ASSUME DailySave PROVE Saves
  <2> DEFINE x == [w.s EXCEPT !.daily = Today(w.t)]
  <2>1. st' = [st EXCEPT ![w.r] = x] /\ w.pc = "dailySave"
    BY <1>3 DEF DailySave, Save, At
  <2>2. x.ev = w.s.ev /\ x.low = w.s.low
    BY <1>0 DEF State
  <2> HIDE DEF x
  <2> QED BY <1>0, <1>3, <2>1, <2>2 DEF CopyIsSaved
<1>4. ASSUME PowerScan PROVE Saves
  <2> DEFINE x == [w.s EXCEPT !.pwr = Dark(w.t)]
  <2>1. (st' = st \/ st' = [st EXCEPT ![w.r] = x]) /\ w.pc = "power"
    BY <1>4 DEF PowerScan, Save, At
  <2>2. x.daily = w.s.daily /\ x.ev = w.s.ev /\ x.low = w.s.low
    BY <1>0 DEF State
  <2> HIDE DEF x
  <2> QED BY <1>0, <2>1, <2>2 DEF CopyIsSaved
<1>5. ASSUME PowerSave PROVE Saves
  <2> DEFINE x == [w.new EXCEPT !.off = (Reported \cup w.add) \ w.drop]
  <2>1. st' = [st EXCEPT ![w.r] = x] /\ w.pc = "powerSave"
    BY <1>5 DEF PowerSave, Save, At, Reported, First
  <2>2. x.daily = w.s.daily /\ x.ev = w.s.ev /\ x.low = w.s.low
    BY <1>0, <2>1 DEF State, PowerCopies
  <2> HIDE DEF x
  <2> QED BY <1>0, <2>1, <2>2 DEF CopyIsSaved
<1>6. ASSUME DigestSave PROVE Saves
  <2>1. st' = [st EXCEPT ![w.r] = w.new] /\ w.pc = "save"
    BY <1>6 DEF DigestSave, Save, At
  <2>2. w.new.daily = w.s.daily
    BY <2>1 DEF DigestCopies, Reading
  <2> QED BY <1>0, <1>6, <2>1, <2>2 DEF CopyIsSaved
<1> HIDE DEF Saves
<1>7. Saves
  BY <1>1, <1>2, <1>3, <1>4, <1>5, <1>6 DEF Working
<1> QED BY <1>7 DEF Saves

(* OnceStep: the copies stay copies, and time does not run backwards. *)
LEMMA OnceStep ==
  ASSUME TypeInv, OnceInv, [Next]_vars
  PROVE  OnceInv' /\ Upto <= Upto'
<1>0. TypeOK /\ CopyIsSaved /\ PassBegan /\ PowerCopies /\ DigestCopies
      /\ now \in Nat /\ w.t \in Nat
  BY DEF TypeInv, OnceInv, TypeOK, Thread, Time
<1>1. CopyIsSaved' /\ PowerCopies' /\ DigestCopies'
  BY <1>0, CopyStep, CopiesStep
<1>2. ASSUME \/ Clock
             \/ \E f \in [Dev -> Opt(Feed)], n \in 0..MaxEv : SyncCommit(f, n)
             \/ \E r \in Rcpt, p \in Prefs : SetPrefs(r, p)
             \/ UNCHANGED vars
      PROVE  PassBegan' /\ Upto <= Upto'
  <2>1. w' = w /\ now' >= now /\ now' \in Nat
    BY <1>0, <1>2, OthersGo DEF Clock, SyncCommit, SetPrefs, vars
  <2> QED BY <1>0, <2>1 DEF PassBegan, Upto
<1>3. ASSUME StartTick \/ EndTick \/ Crash \/ \E r \in Rcpt : Pick(r)
      PROVE  PassBegan' /\ Upto <= Upto'
  BY <1>0, <1>3, PassGoes
<1>4. ASSUME Working
      PROVE  PassBegan' /\ Upto <= Upto'
  BY <1>0, <1>4, WorkGoes DEF Upto
<1>5. PassBegan' /\ Upto <= Upto'
  BY <1>2, <1>3, <1>4 DEF Next, ThreadStep, Working
<1> QED BY <1>1, <1>5 DEF OnceInv

-----------------------------------------------------------------------------
(* Morning summaries *)

(* A later time is not of an earlier day. *)
LEMMA LaterDay ==
  ASSUME NEW a \in Nat, NEW b \in Nat, a <= b
  PROVE  Today(a) \in Nat /\ Today(b) \in Nat /\ Today(a) <= Today(b)
<1> DEFINE x == a \div Day
           y == b \div Day
<1>0. Day \in Nat \ {0}
  BY NotifyAssumption
<1>1. x \in Nat /\ y \in Nat
  BY <1>0
<1>2. Day * x <= a /\ b < Day * y + Day
  BY <1>0
<1>3. \A u, v \in Nat : u > v => Day * u >= Day * v + Day
  BY <1>0
<1>4. Day * x \in Nat /\ Day * y \in Nat
  BY <1>0, <1>1
<1> HIDE DEF x, y
<1>5. ~(x > y)
  BY <1>0, <1>1, <1>2, <1>3, <1>4
<1>6. x <= y
  BY <1>1, <1>5
<1> QED BY <1>1, <1>6 DEF x, y, Today

(* The day of the last summary is not yet to come, a summary is due only on a *)
(* day it was not sent on, and who was sent one has the day ticked off, but   *)
(* for the moment before the save.                                            *)
DailyPast == \A r \in Rcpt : st[r].daily # Null => st[r].daily <= Today(Upto)
DailyDue  == w.pc = "dailySend" => w.s.daily # Today(w.t)
Ticked(r, n) == \/ st[r].daily # Null /\ n <= st[r].daily
                \/ w.pc = "dailySave" /\ w.r = r /\ n = Today(w.t)
DailyTold == \A r \in Rcpt : \A n \in 0..(MaxTime \div Day) :
                told[r].daily[n] = 0 \/ (told[r].daily[n] = 1 /\ Ticked(r, n))
DailyInv  == DailyPast /\ DailyDue /\ DailyTold

(* No step sends a second summary on a day, or forgets that one was sent. *)
LEMMA DailyStep ==
  ASSUME TypeInv, OnceInv, DailyInv, ~MayCrash, [Next]_vars
  PROVE  DailyInv'
<1>0. /\ TypeOK /\ CopyIsSaved /\ PassBegan /\ PowerCopies /\ DigestCopies /\ TypeOK'
      /\ Upto \in Nat /\ Upto' \in Nat /\ Upto <= Upto'
      /\ w.t \in Nat /\ Day \in Nat \ {0}
  BY NotifyAssumption, StepType, OnceStep DEF TypeInv, OnceInv, TypeOK, Thread, Time, Upto
<1>1. /\ Today(Upto) \in Nat /\ Today(Upto') \in Nat /\ Today(Upto) <= Today(Upto')
      /\ Today(w.t) \in Nat
  BY <1>0, LaterDay
<1>2. \A r \in Rcpt : /\ st[r].daily \in Opt(Nat) /\ st'[r].daily \in Opt(Nat)
                      /\ told[r].daily \in [0..(MaxTime \div Day) -> Nat]
                      /\ told'[r].daily \in [0..(MaxTime \div Day) -> Nat]
  BY <1>0 DEF TypeOK, State, Told
<1>3. Today(Upto)' = Today(Upto')
  BY DEF Today
(* a step that leaves the days alone *)
<1> DEFINE Leaves == \A r \in Rcpt : /\ told'[r].daily = told[r].daily
                                     /\ st'[r].daily = st[r].daily
<1>4. ASSUME Leaves PROVE DailyPast'
  <2> SUFFICES ASSUME NEW r \in Rcpt, st[r].daily # Null PROVE st[r].daily <= Today(Upto')
    BY <1>3, <1>4 DEF DailyPast
  <2>1. st[r].daily \in Nat /\ st[r].daily <= Today(Upto)
    BY <1>2 DEF DailyInv, DailyPast, Opt
  <2> QED BY <1>1, <2>1
<1>5. ASSUME Leaves, w' = w \/ w.pc # "dailySave" PROVE DailyTold'
  <2> SUFFICES ASSUME NEW r \in Rcpt, NEW n \in 0..(MaxTime \div Day)
               PROVE  told[r].daily[n] = 0 \/ (told[r].daily[n] = 1 /\ Ticked(r, n)')
    BY <1>5 DEF DailyTold
  <2>1. Ticked(r, n) => Ticked(r, n)'
    BY <1>5 DEF Ticked
  <2> QED BY <2>1 DEF DailyInv, DailyTold
<1>6. ASSUME \/ Clock
             \/ \E f \in [Dev -> Opt(Feed)], n \in 0..MaxEv : SyncCommit(f, n)
             \/ \E r \in Rcpt, p \in Prefs : SetPrefs(r, p)
             \/ UNCHANGED vars
      PROVE  DailyInv'
  <2>1. w' = w /\ Leaves
    BY <1>0, <1>6, OthersGo
  <2> QED BY <1>4, <1>5, <2>1 DEF DailyInv, DailyDue
<1>7. ASSUME StartTick \/ EndTick \/ \E r \in Rcpt : Pick(r)
      PROVE  DailyInv'
  <2>1. Leaves /\ w'.pc \in {"idle", "next", "daily"}
    BY <1>0, <1>7, PassGoes
  <2>2. w.pc \in {"idle", "next"}
    BY <1>7 DEF StartTick, EndTick, Pick, At
  <2> QED BY <1>4, <1>5, <2>1, <2>2 DEF DailyInv, DailyDue
<1>8. ASSUME Working, ~DailySave, ~DailySend(TRUE)
      PROVE  DailyInv'
  <2>1. Leaves
    BY <1>0, <1>8, WorkTells, WorkSaves
  <2>2. w.pc # "dailySave"
    BY <1>8 DEF Working, Daily, PowerScan, PowerCheck, PowerSave, Digest, ReadBack, ReadEvents,
                ReadLast, DigestSave, Send, DailySend, PowerSend, DigestSend, At
  <2>3. DailyDue'
    <3>1. CASE Daily
      BY <1>0, <3>1 DEF Daily, To, Go, DailyDue, TypeOK, Thread, Today
    <3>2. ASSUME ~Daily PROVE w'.pc # "dailySend"
      BY <1>0, <1>8, <3>2, IdleThreadType, ZenonT(60)
         DEF Working, PowerScan, PowerCheck, PowerSave, Digest, ReadBack, ReadEvents, ReadLast,
             DigestSave, Send, DailySend, PowerSend, DigestSend, NextRecipient, At, To, Go, TypeOK,
             Thread
    <3> QED BY <3>1, <3>2 DEF DailyDue
  <2> QED BY <1>4, <1>5, <2>1, <2>2, <2>3 DEF DailyInv
<1>9. ASSUME DailySend(TRUE)
      PROVE  DailyInv'
  <2>0. Working
    BY <1>9 DEF Working, Send, Outcome
  <2>1. w.pc = "dailySend" /\ w' = [w EXCEPT !.pc = "dailySave"] /\ st' = st
    BY <1>9 DEF DailySend, At, To, Go
  <2>2. w'.pc = "dailySave" /\ w'.r = w.r /\ w'.t = w.t /\ w.r \in Rcpt /\ w.s = st[w.r]
    BY <1>0, <2>1 DEF TypeOK, Thread, CopyIsSaved
  <2>3. \A q \in Rcpt \ {w.r} : told'[q].daily = told[q].daily
    BY <1>0, <2>0, WorkTells
  <2>4. told'[w.r].daily = [told[w.r].daily EXCEPT ![Today(w.t)] = @ + 1]
    BY <1>0, <1>9, <2>2 DEF DailySend, Tell, TypeOK, Told
  <2>5. DailyPast'
    <3> SUFFICES ASSUME NEW r \in Rcpt, st[r].daily # Null PROVE st[r].daily <= Today(Upto')
      BY <1>3, <2>1 DEF DailyPast
    <3>1. st[r].daily \in Nat /\ st[r].daily <= Today(Upto)
      BY <1>2 DEF DailyInv, DailyPast, Opt
    <3> QED BY <1>1, <3>1
  <2>6. DailyTold'
    <3> SUFFICES ASSUME NEW r \in Rcpt, NEW n \in 0..(MaxTime \div Day)
                 PROVE  told'[r].daily[n] = 0 \/ (told'[r].daily[n] = 1 /\ Ticked(r, n)')
      BY DEF DailyTold
    <3>1. Ticked(r, n) => Ticked(r, n)'
      BY <2>1 DEF Ticked
    <3>2. CASE r # w.r \/ n # Today(w.t)
      <4>1. told'[r].daily[n] = told[r].daily[n]
        BY <1>2, <2>2, <2>3, <2>4, <3>2
      <4> QED BY <3>1, <4>1 DEF DailyInv, DailyTold
    <3>3. CASE r = w.r /\ n = Today(w.t)
      <4>1. Upto = w.t
        BY <2>1 DEF Upto
      <4>2. ~Ticked(r, n)
        <5>1. st[r].daily # Null => st[r].daily \in Nat /\ st[r].daily <= n /\ st[r].daily # n
          BY <1>2, <2>1, <2>2, <3>3, <4>1 DEF DailyInv, DailyPast, DailyDue, Opt
        <5>2. ~(st[r].daily # Null /\ n <= st[r].daily)
          BY <5>1
        <5> QED BY <2>1, <5>2 DEF Ticked
      <4>3. told[r].daily[n] = 0
        BY <4>2 DEF DailyInv, DailyTold
      <4>4. told'[r].daily[n] = 1
        <5>1. told'[r].daily = [told[r].daily EXCEPT ![n] = @ + 1]
          BY <2>4, <3>3
        <5>2. told[r].daily \in [0..(MaxTime \div Day) -> Nat]
          BY <1>2
        <5>3. told'[r].daily[n] = told[r].daily[n] + 1
          BY <5>1, <5>2
        <5> QED BY <4>3, <5>3
      <4>5. Ticked(r, n)'
        BY <2>2, <3>3 DEF Ticked, Today
      <4> QED BY <4>4, <4>5
    <3> QED BY <3>2, <3>3
  <2> QED BY <2>2, <2>5, <2>6 DEF DailyInv, DailyDue
<1>10. ASSUME DailySave
       PROVE  DailyInv'
  <2>0. Working
    BY <1>10 DEF Working
  <2>1. w.pc = "dailySave" /\ told' = told /\ w'.pc = "power"
    BY <1>0, <1>10 DEF DailySave, At, Go, TypeOK, Thread
  <2>2. w.r \in Rcpt /\ w.s \in State /\ Upto' = w.t
    BY <1>0, <2>0, <2>1, WorkGoes DEF CopyIsSaved, TypeOK, Thread, Upto
  <2>3. \A q \in Rcpt \ {w.r} : st'[q].daily = st[q].daily
    BY <1>0, <2>0, WorkSaves
  <2>4. st'[w.r].daily = Today(w.t)
    BY <1>0, <1>10, <2>2 DEF DailySave, Save, TypeOK, State
  <2>5. \A r \in Rcpt : st[r].daily # Null => st[r].daily \in Nat /\ st[r].daily <= Today(Upto)
    BY <1>2 DEF DailyInv, DailyPast, Opt
  <2>6. DailyPast'
    <3> SUFFICES ASSUME NEW r \in Rcpt, st'[r].daily # Null PROVE st'[r].daily <= Today(Upto')
      BY <1>3 DEF DailyPast
    <3>1. CASE r = w.r
      BY <1>1, <2>2, <2>4, <3>1
    <3>2. CASE r # w.r
      <4>1. st'[r].daily = st[r].daily
        BY <2>3, <3>2
      <4> QED BY <1>1, <2>5, <4>1
    <3> QED BY <3>1, <3>2
  <2>7. DailyTold'
    <3> SUFFICES ASSUME NEW r \in Rcpt, NEW n \in 0..(MaxTime \div Day), Ticked(r, n)
                 PROVE  Ticked(r, n)'
      BY <2>1 DEF DailyInv, DailyTold
    <3>1. CASE r = w.r
      <4>1. Upto = w.t
        BY <2>1 DEF Upto
      <4>2. n <= Today(w.t)
        BY <1>1, <2>5, <4>1 DEF Ticked
      <4>3. Today(w.t) # Null
        BY <1>1, NotifyAssumption
      <4> QED BY <2>4, <3>1, <4>2, <4>3 DEF Ticked
    <3>2. CASE r # w.r
      BY <2>3, <3>2 DEF Ticked
    <3> QED BY <3>1, <3>2
  <2> QED BY <2>1, <2>6, <2>7 DEF DailyInv, DailyDue
<1>11. ~Crash
  BY DEF Crash
<1> QED BY <1>6, <1>7, <1>8, <1>9, <1>10, <1>11 DEF Next, ThreadStep, Working

(* A pass that is not cut short sends each recipient at most one morning      *)
(* summary a day, whether or not calls fail and whatever the pass does after  *)
(* it.                                                                        *)
THEOREM OneSummaryADay ==
  ASSUME ~MayCrash
  PROVE  Spec => []DailyOnce
<1> DEFINE IInv == TypeInv /\ OnceInv /\ DailyInv
<1>1. Init => IInv
  <2> SUFFICES ASSUME Init PROVE IInv
    OBVIOUS
  <2>1. w.pc = "idle" /\ w.t = 0 /\ now = 0
    BY DEF Init, IdleThread
  <2>2. \A r \in Rcpt : st[r].daily = Null
    BY DEF Init, NoState
  <2>3. \A r \in Rcpt : \A n \in 0..(MaxTime \div Day) : told[r].daily[n] = 0
    BY DEF Init
  <2>4. OnceInv
    BY <2>1 DEF OnceInv, CopyIsSaved, PowerCopies, DigestCopies, Reading, PassBegan
  <2>5. DailyInv
    BY <2>1, <2>2, <2>3 DEF DailyInv, DailyPast, DailyDue, DailyTold
  <2> QED BY <2>4, <2>5, InitReported
<1>2. IInv /\ [Next]_vars => IInv'
  BY TypeStep, OnceStep, DailyStep
<1>3. IInv => DailyOnce
  <2> SUFFICES ASSUME IInv, NEW r \in Rcpt, NEW n \in DOMAIN told[r].daily
               PROVE  told[r].daily[n] <= 1
    BY DEF DailyOnce
  <2>1. n \in 0..(MaxTime \div Day)
    BY DEF TypeInv, TypeOK, Told
  <2>2. told[r].daily[n] = 0 \/ told[r].daily[n] = 1
    BY <2>1 DEF DailyInv, DailyTold
  <2> QED BY <2>2
<1> QED BY <1>1, <1>2, <1>3, PTL DEF Spec

-----------------------------------------------------------------------------
(* Pool and worker events *)

(* A digest reads events after the cursor it started from, and moves it past  *)
(* them; who was told of an event has the cursor past it, at the latest with  *)
(* the save that follows.                                                     *)
PoolNew   == w.pc \in {"last", "send"} => \A e \in w.pool : w.s.ev < e /\ e <= ev
PoolRead  == w.pc \in {"send", "save"} => /\ w.s.ev <= w.new.ev /\ w.new.ev <= ev
                                         /\ \A e \in w.pool : e <= w.new.ev
Cursor(r) == IF w.pc = "save" /\ w.r = r THEN w.new.ev ELSE st[r].ev
ToldPast  == \A r \in Rcpt : st[r].ev <= ev /\ \A e \in told[r].ev : e <= Cursor(r)
EventsInv == PoolNew /\ PoolRead /\ ToldPast

(* Reading moves no cursor back. *)
LEMMA PoolStep ==
  ASSUME TypeOK, TypeOK', OnceInv, EventsInv, Working
  PROVE  PoolNew' /\ PoolRead'
<1>0. /\ w \in Thread /\ w.s \in State /\ w.new \in State /\ w.s.ev \in Nat /\ w.new.ev \in Nat
      /\ ev \in Nat /\ w.pool \in SUBSET Nat /\ IdleThread \in Thread /\ EvLimit \in Nat
  <2>1. w \in Thread /\ w.s \in State /\ w.new \in State /\ w.pool \in SUBSET Nat
    BY DEF TypeOK, Thread
  <2>2. ev \in Nat /\ EvLimit \in Nat
    BY NotifyAssumption DEF TypeOK
  <2> QED BY <2>1, <2>2, IdleThreadType DEF State
<1>1. ev' = ev
  BY WorkGoes DEF OnceInv, World
<1>2. w.pc \notin {"idle", "next"} => w.s.ev <= ev
  BY DEF OnceInv, CopyIsSaved, EventsInv, ToldPast
<1> DEFINE Calm == w'.pc \notin {"last", "send", "save"}
<1>3. ASSUME ReadEvents PROVE PoolNew' /\ PoolRead'
  <2>1. /\ w'.pc = "last" /\ w'.s = w.s
        /\ w'.pool = {e \in 1..ev : e > w.s.ev /\ e <= w.s.ev + EvLimit}
    BY <1>0, <1>3 DEF ReadEvents, Go, Thread
  <2>2. \A e \in w'.pool : w.s.ev < e /\ e <= ev
    BY <1>0, <2>1
  <2> QED BY <1>1, <2>1, <2>2 DEF PoolNew, PoolRead
<1>4. ASSUME ReadLast PROVE PoolNew' /\ PoolRead'
  <2>1. CASE NextRecipient
    BY <1>0, <2>1 DEF NextRecipient, Go, Thread, PoolNew, PoolRead
  <2>2. CASE ~NextRecipient
    <3>1. /\ w.pc = "last" /\ w'.pc \in {"send", "save"} /\ w'.s = w.s /\ w'.pool = w.pool
          /\ w'.new = [w.new EXCEPT !.ev = ev]
      BY <1>0, <1>4, <2>2 DEF ReadLast, At, Go, Thread
    <3>2. w'.new.ev = ev
      BY <1>0, <3>1 DEF State
    <3> QED BY <1>0, <1>1, <1>2, <3>1, <3>2 DEF EventsInv, PoolNew, PoolRead
  <2> QED BY <2>1, <2>2
<1>5. ASSUME NEW ok \in Outcome, Send(ok) PROVE PoolNew' /\ PoolRead'
  <2>1. \/ Calm
        \/ w.pc = "send" /\ w'.pc = "save" /\ w'.s = w.s /\ w'.new = w.new /\ w'.pool = w.pool
    BY <1>0, <1>5 DEF Send, DailySend, PowerSend, DigestSend, At, To, Go, Thread
  <2> QED BY <1>1, <2>1 DEF EventsInv, PoolNew, PoolRead
<1>6. ASSUME Daily \/ DailySave \/ PowerScan \/ PowerCheck \/ PowerSave PROVE Calm
  BY <1>0, <1>6 DEF Daily, DailySave, PowerScan, PowerCheck, PowerSave, To, Go, Thread
<1>7. ASSUME Digest \/ ReadBack \/ DigestSave PROVE Calm
  BY <1>0, <1>7 DEF Digest, ReadBack, DigestSave, NextRecipient, Go, Thread
<1>8. Calm => PoolNew' /\ PoolRead'
  BY DEF PoolNew, PoolRead
<1> HIDE DEF Calm
<1> QED BY <1>3, <1>4, <1>5, <1>6, <1>7, <1>8 DEF Working

(* No step tells of an event the cursor is not moved past. *)
LEMMA EventsStep ==
  ASSUME TypeInv, OnceInv, EventsInv, ~MayCrash, [Next]_vars
  PROVE  EventsInv'
<1>0. /\ TypeOK /\ CopyIsSaved /\ PassBegan /\ PowerCopies /\ DigestCopies /\ TypeOK'
      /\ w \in Thread /\ w.new \in State /\ ev \in Nat /\ ev' \in Nat
      /\ \A r \in Rcpt : st[r].ev \in Nat /\ told[r].ev \in SUBSET Nat
  <2>1. TypeOK /\ TypeOK' /\ CopyIsSaved /\ PassBegan /\ PowerCopies /\ DigestCopies
    BY StepType DEF TypeInv, OnceInv
  <2>2. ev \in Nat /\ ev' \in Nat /\ w \in Thread /\ w.new \in State
    BY <2>1 DEF TypeOK, Thread
  <2>3. \A r \in Rcpt : st[r].ev \in Nat /\ told[r].ev \in SUBSET Nat
    BY <2>1 DEF TypeOK, State, Told
  <2> QED BY <2>1, <2>2, <2>3
<1>1. ASSUME \/ Clock
             \/ \E f \in [Dev -> Opt(Feed)], n \in 0..MaxEv : SyncCommit(f, n)
             \/ \E r \in Rcpt, p \in Prefs : SetPrefs(r, p)
             \/ UNCHANGED vars
      PROVE  EventsInv'
  <2>1. w' = w /\ st' = st /\ ev' >= ev /\ \A r \in Rcpt : told'[r].ev = told[r].ev
    BY <1>0, <1>1, OthersGo
  <2>2. w.s.ev \in Nat /\ w.new.ev \in Nat /\ w.pool \in SUBSET Nat
    BY <1>0 DEF Thread, State
  <2> QED BY <1>0, <2>1, <2>2 DEF EventsInv, PoolNew, PoolRead, ToldPast, Cursor
<1>2. ASSUME StartTick \/ EndTick \/ \E r \in Rcpt : Pick(r)
      PROVE  EventsInv'
  <2>1. UNCHANGED <<ev, st, told>> /\ w'.pc \in {"idle", "next", "daily"}
    BY <1>0, <1>2, PassGoes DEF World
  <2>2. w.pc \in {"idle", "next"}
    BY <1>2 DEF StartTick, EndTick, Pick, At
  <2> QED BY <2>1, <2>2 DEF EventsInv, PoolNew, PoolRead, ToldPast, Cursor
<1>3. ASSUME Working, ~DigestSave, ~DigestSend(TRUE)
      PROVE  ToldPast'
  <2>1. \A r \in Rcpt : told'[r].ev = told[r].ev /\ st'[r].ev = st[r].ev
    BY <1>0, <1>3, WorkTells, WorkSaves
  <2>2. w.pc # "save" /\ ev' = ev /\ (w'.pc # "next" => w'.r = w.r)
    <3>1. w.pc # "save"
      BY <1>3 DEF Working, Daily, DailySave, PowerScan, PowerCheck, PowerSave, Digest, ReadBack,
                  ReadEvents, ReadLast, Send, DailySend, PowerSend, DigestSend, At
    <3> QED BY <1>0, <1>3, <3>1, WorkGoes DEF World
  <2>3. w'.pc = "save" => w'.s.ev <= w'.new.ev /\ w'.s.ev = st[w.r].ev /\ w.r \in Rcpt
    BY <1>0, <1>3, <2>1, <2>2, PoolStep, CopyStep DEF PoolRead, CopyIsSaved
  <2>4. w'.pc = "save" => w'.new.ev \in Nat
    BY <1>0 DEF TypeOK, Thread, State
  <2> SUFFICES ASSUME NEW r \in Rcpt, NEW e \in told[r].ev PROVE e <= Cursor(r)'
    BY <2>1, <2>2 DEF EventsInv, ToldPast
  <2>5. e <= st[r].ev /\ e \in Nat
    BY <1>0, <2>2 DEF EventsInv, ToldPast, Cursor
  <2>6. CASE w'.pc = "save" /\ w'.r = r
    <3>1. Cursor(r)' = w'.new.ev
      BY <2>6 DEF Cursor
    <3>2. st[r].ev <= w'.new.ev
      BY <2>2, <2>3, <2>6
    <3> QED BY <1>0, <2>4, <2>5, <2>6, <3>1, <3>2
  <2>7. CASE ~(w'.pc = "save" /\ w'.r = r)
    BY <2>1, <2>5, <2>7 DEF Cursor
  <2> QED BY <2>6, <2>7
<1>4. ASSUME DigestSend(TRUE)
      PROVE  ToldPast'
  <2>0. Working
    BY <1>4 DEF Working, Send, Outcome
  <2>1. w.pc = "send" /\ w' = [w EXCEPT !.pc = "save"] /\ st' = st /\ ev' = ev
    BY <1>4 DEF DigestSend, At, To, Go, World
  <2>2. w'.pc = "save" /\ w'.r = w.r /\ w'.new = w.new /\ w.r \in Rcpt /\ w.s = st[w.r]
    BY <1>0, <2>1 DEF Thread, CopyIsSaved
  <2>3. \A q \in Rcpt \ {w.r} : told'[q].ev = told[q].ev
    BY <1>0, <2>0, WorkTells
  <2>4. told'[w.r].ev \subseteq told[w.r].ev \cup w.pool
    <3>1. Digested(told[w.r]).ev \subseteq told[w.r].ev \cup w.pool
      BY <1>0, <2>2 DEF Digested, TypeOK, Told
    <3>2. told'[w.r] = Digested(told[w.r])
      BY <1>0, <1>4, <2>2 DEF DigestSend, Tell, TypeOK
    <3> QED BY <3>1, <3>2
  <2>5. /\ \A e \in w.pool : e <= w.new.ev
        /\ \A e \in told[w.r].ev : e <= st[w.r].ev
        /\ st[w.r].ev <= w.new.ev /\ w.new.ev \in Nat
    BY <1>0, <2>1, <2>2 DEF EventsInv, PoolRead, ToldPast, Cursor, State
  <2>6. \A e \in told'[w.r].ev : e <= w.new.ev
    <3>1. \A e \in told[w.r].ev : e <= w.new.ev
      BY <1>0, <2>2, <2>5
    <3> QED BY <2>4, <2>5, <3>1
  <2> QED BY <2>1, <2>2, <2>3, <2>6 DEF EventsInv, ToldPast, Cursor
<1>5. ASSUME DigestSave
      PROVE  ToldPast'
  <2>0. Working
    BY <1>5 DEF Working
  <2>1. /\ w.pc = "save" /\ st' = [st EXCEPT ![w.r] = w.new] /\ ev' = ev /\ w'.pc = "next"
        /\ w.r \in Rcpt
    BY <1>0, <1>5, IdleThreadType
       DEF DigestSave, At, Save, World, NextRecipient, Go, Thread, CopyIsSaved
  <2>2. \A q \in Rcpt \ {w.r} : told'[q].ev = told[q].ev
    BY <1>0, <2>0, WorkTells
  <2>3. told'[w.r].ev = told[w.r].ev \/ told'[w.r].ev = 1..w.new.ev
    <3> DEFINE x == [told[w.r] EXCEPT !.down = w.new.off, !.ev = 1..w.new.ev,
                                      !.low = InEpisode(farm, w.seen)]
    <3>1. x.ev = 1..w.new.ev
      BY <1>0, <2>1 DEF TypeOK, Told
    <3>2. told' = told \/ told' = [told EXCEPT ![w.r] = x]
      BY <1>5 DEF DigestSave, Tell
    <3> HIDE DEF x
    <3> QED BY <1>0, <2>1, <3>1, <3>2 DEF TypeOK
  <2>4. /\ w.new.ev <= ev /\ \A e \in told[w.r].ev : e <= w.new.ev
    BY <2>1 DEF EventsInv, PoolRead, ToldPast, Cursor
  <2>5. st'[w.r].ev = w.new.ev /\ \A q \in Rcpt \ {w.r} : st'[q].ev = st[q].ev
    BY <1>0, <2>1 DEF TypeOK
  <2>6. \A e \in 1..w.new.ev : e <= w.new.ev
    BY <1>0 DEF State
  <2> QED BY <2>1, <2>2, <2>3, <2>4, <2>5, <2>6 DEF EventsInv, ToldPast, Cursor
<1>6. ~Crash
  BY DEF Crash
<1>7. ASSUME Working PROVE EventsInv'
  BY <1>0, <1>3, <1>4, <1>5, <1>7, PoolStep DEF EventsInv
<1> QED BY <1>1, <1>2, <1>6, <1>7 DEF Next, ThreadStep, Working

-----------------------------------------------------------------------------
(* Alarms *)

(* A recipient who keeps the hold he asked for. *)
SameHold == \A p, q \in Prefs : p.hold = q.hold

(* An episode somebody was told of is still on and still held, and its device *)
(* is among the saved alarms; a snapshot has the devices of every such        *)
(* episode, and the episodes it has are held.                                 *)
On(e)      == /\ farm[e[1]] # Null /\ farm[e[1]].inop
              /\ farm[e[1]].status # "offline" /\ farm[e[1]].low = e[2]
ToldIsOn   == \A r \in Rcpt : \A e \in told[r].low :
                 On(e) /\ \A p \in Prefs : Held(e[2], p, Upto)
ToldIsSaved == \A r \in Rcpt : r # w.r \/ w.pc # "save"
                  => \A e \in told[r].low : e[1] \in st[r].low
ToldIsSeen == w.pc \in Reading => \A e \in told[w.r].low : e[1] \in w.low
SeenIsHeld == w.pc \in Reading =>
                 \A e \in w.seen : /\ e[1] \in w.low /\ farm[e[1]] # Null
                                   /\ \A p \in Prefs : Held(e[2], p, w.t)
AlarmsInv  == ToldIsOn /\ ToldIsSaved /\ ToldIsSeen /\ SeenIsHeld

(* What has held goes on holding. *)
LEMMA HeldLater ==
  ASSUME NEW since \in Nat, NEW a \in Nat, NEW b \in Nat, a <= b, NEW p \in Prefs, Held(since, p, a)
  PROVE  Held(since, p, b)
<1>1. p.hold \in Nat
  BY NotifyAssumption
<1> QED BY <1>1 DEF Held

(* The alarms and their episodes are read once in a digest, by the snapshot,  *)
(* which has every device whose alarm somebody was told of.                   *)
LEMMA SnapshotStep ==
  ASSUME TypeOK, OnceInv, AlarmsInv, SameHold, Working, ~DigestSave, ~DigestSend(TRUE)
  PROVE  ToldIsSeen' /\ SeenIsHeld'
<1>0. /\ w \in Thread /\ w.p \in Prefs /\ IdleThread \in Thread /\ CopyIsSaved
      /\ farm \in [Dev -> Opt(Row)] /\ told \in [Rcpt -> Told]
  BY IdleThreadType DEF TypeOK, Thread, OnceInv
<1>1. UNCHANGED World /\ w'.t = w.t /\ (w'.pc # "next" => w'.r = w.r /\ w'.p = w.p)
      /\ w.pc \notin {"idle", "next"}
  BY WorkGoes DEF OnceInv
<1>2. w.r \in Rcpt
  BY <1>0, <1>1 DEF CopyIsSaved
<1>3. told'[w.r].low = told[w.r].low
  BY <1>0, <1>2, WorkTells
<1>4. ASSUME w'.pc \notin Reading PROVE ToldIsSeen' /\ SeenIsHeld'
  BY <1>4 DEF ToldIsSeen, SeenIsHeld
<1>5. ASSUME w.pc \in Reading, w'.pc \in Reading, w'.low = w.low, w'.seen = w.seen
      PROVE  ToldIsSeen' /\ SeenIsHeld'
  <2>1. w'.r = w.r /\ farm' = farm
    BY <1>1, <1>5 DEF Reading, World
  <2> QED BY <1>1, <1>3, <1>5, <2>1 DEF AlarmsInv, ToldIsSeen, SeenIsHeld, Held
<1>6. ASSUME Digest, w'.pc \in Reading PROVE ToldIsSeen' /\ SeenIsHeld'
  <2> DEFINE low  == HeldLow(w.p, w.t)
             seen == {<<d, farm[d].low>> : d \in low}
  <2>0. ~NextRecipient
    BY <1>0, <1>6 DEF NextRecipient, Go, Thread, Reading
  <2>1. w'.low = low /\ w'.seen = seen /\ w'.r = w.r /\ w.pc = "digest" /\ farm' = farm
    BY <1>0, <1>1, <1>6, <2>0 DEF Digest, Go, At, Thread, World
  <2>2. ASSUME NEW e \in told[w.r].low PROVE e[1] \in low
    <3>1. e[1] \in Dev /\ e[2] \in Nat
      BY <1>0, <1>2 DEF Told, Time
    <3>2. On(e) /\ Held(e[2], w.p, Upto)
      BY <1>0, <1>2 DEF AlarmsInv, ToldIsOn
    <3>3. Upto = w.t
      BY <2>1 DEF Upto
    <3>4. farm[e[1]].low = e[2] /\ farm[e[1]].low # Null
      BY <3>1, <3>2, NotifyAssumption DEF On
    <3> QED BY <3>1, <3>2, <3>3, <3>4 DEF HeldLow, On
  <2>3. ASSUME NEW e \in seen
        PROVE  e[1] \in low /\ farm[e[1]] # Null /\ \A p \in Prefs : Held(e[2], p, w.t)
    <3>1. PICK d \in low : e = <<d, farm[d].low>>
      OBVIOUS
    <3>2. farm[d] # Null /\ Held(farm[d].low, w.p, w.t)
      BY DEF HeldLow
    <3>3. \A p \in Prefs : p.hold = w.p.hold
      BY <1>0 DEF SameHold
    <3> HIDE DEF low
    <3> QED BY <3>1, <3>2, <3>3 DEF Held
  <2> HIDE DEF low, seen
  <2>4. ToldIsSeen'
    BY <1>3, <2>1, <2>2 DEF ToldIsSeen
  <2>5. SeenIsHeld'
    BY <1>1, <2>1, <2>3 DEF SeenIsHeld, Held
  <2> QED BY <2>4, <2>5
<1>7. ASSUME ReadBack \/ ReadEvents, w'.pc \in Reading
      PROVE  w.pc \in Reading /\ w'.low = w.low /\ w'.seen = w.seen
  BY <1>0, <1>7 DEF ReadBack, ReadEvents, At, Go, Thread, Reading
<1>8. ASSUME ReadLast, w'.pc \in Reading
      PROVE  w.pc \in Reading /\ w'.low = w.low /\ w'.seen = w.seen
  <2>1. ~NextRecipient
    BY <1>0, <1>8 DEF NextRecipient, Go, Thread, Reading
  <2> QED BY <1>0, <1>8, <2>1 DEF ReadLast, At, Go, Thread, Reading
<1>9. ASSUME NEW ok \in Outcome, Send(ok), w'.pc \in Reading
      PROVE  w.pc \in Reading /\ w'.low = w.low /\ w'.seen = w.seen
  BY <1>0, <1>9 DEF Send, DailySend, PowerSend, DigestSend, At, To, Go, Thread, Reading
<1>10. ASSUME Daily \/ DailySave \/ PowerScan \/ PowerCheck \/ PowerSave
       PROVE  w'.pc \notin Reading
  BY <1>0, <1>10, ZenonT(60)
     DEF Daily, DailySave, PowerScan, PowerCheck, PowerSave, To, Go, Thread, Reading
<1> QED BY <1>4, <1>5, <1>6, <1>7, <1>8, <1>9, <1>10 DEF Working

(* No step makes an alarm somebody was told of look new. *)
LEMMA AlarmsStep ==
  ASSUME TypeInv, OnceInv, AlarmsInv, SameHold, ~MayCrash, [Next]_vars
  PROVE  AlarmsInv'
<1>0. /\ TypeOK /\ CopyIsSaved /\ PassBegan /\ PowerCopies /\ DigestCopies
      /\ Upto \in Nat /\ Upto' \in Nat /\ Upto <= Upto'
  <2>1. TypeOK /\ TypeOK' /\ CopyIsSaved /\ PassBegan /\ PowerCopies /\ DigestCopies
    BY StepType DEF TypeInv, OnceInv
  <2> QED BY <2>1, OnceStep DEF TypeOK, Thread, Time, Upto
<1>a. \A r \in Rcpt : \A e \in told[r].low : e[1] \in Dev /\ e[2] \in Nat
  BY <1>0 DEF TypeOK, Told, Time
<1>b. w \in Thread /\ \A e \in w.seen : e[1] \in Dev /\ e[2] \in Nat
  BY <1>0 DEF TypeOK, Thread, Time
(* what was told and goes on is on, and held for longer *)
<1>1. ASSUME NEW r \in Rcpt, NEW e \in told[r].low, On(e)'
      PROVE  (On(e) /\ \A p \in Prefs : Held(e[2], p, Upto))'
  <2>1. \A p \in Prefs : Held(e[2], p, Upto)
    BY DEF AlarmsInv, ToldIsOn
  <2>2. \A p \in Prefs : Held(e[2], p, Upto')
    BY <1>0, <1>a, <2>1, HeldLater
  <2> QED BY <1>1, <2>2 DEF Held
<1>2. ASSUME \/ Clock
             \/ \E f \in [Dev -> Opt(Feed)], n \in 0..MaxEv : SyncCommit(f, n)
             \/ \E r \in Rcpt, p \in Prefs : SetPrefs(r, p)
             \/ UNCHANGED vars
      PROVE  AlarmsInv'
  <2>1. /\ w' = w /\ st' = st
        /\ \A d \in Dev : farm[d] # Null => farm'[d] # Null
        /\ \A r \in Rcpt : \/ farm' = farm /\ told'[r].low = told[r].low
                           \/ told'[r].low = InEpisode(farm', told[r].low)
    BY <1>0, <1>2, OthersGo
  <2>2. \A r \in Rcpt : told'[r].low \subseteq told[r].low
    BY <2>1 DEF InEpisode
  <2>3. ASSUME NEW r \in Rcpt, NEW e \in told'[r].low PROVE On(e)'
    <3>1. On(e) /\ e[1] \in Dev
      BY <1>a, <2>2 DEF AlarmsInv, ToldIsOn
    <3>2. CASE farm' = farm
      BY <3>1, <3>2 DEF On
    <3>3. CASE told'[r].low = InEpisode(farm', told[r].low)
      BY <2>1, <3>1, <3>3 DEF On, InEpisode
    <3> QED BY <2>1, <3>2, <3>3
  <2>4. ToldIsOn'
    BY <1>1, <2>2, <2>3 DEF ToldIsOn
  <2>5. ToldIsSaved'
    BY <2>1, <2>2 DEF AlarmsInv, ToldIsSaved
  <2>6. ToldIsSeen'
    <3>1. w.pc \in Reading => w.r \in Rcpt
      BY <1>0 DEF CopyIsSaved, Reading
    <3> QED BY <2>1, <2>2, <3>1 DEF AlarmsInv, ToldIsSeen
  <2>7. SeenIsHeld'
    BY <1>b, <2>1 DEF AlarmsInv, SeenIsHeld, Held
  <2> QED BY <2>4, <2>5, <2>6, <2>7 DEF AlarmsInv
<1>3. ASSUME StartTick \/ EndTick \/ \E r \in Rcpt : Pick(r)
      PROVE  AlarmsInv'
  <2>1. UNCHANGED <<World, st, told>> /\ w'.pc \in {"idle", "next", "daily"}
    BY <1>0, <1>3, PassGoes
  <2>2. w.pc \in {"idle", "next"}
    BY <1>3 DEF StartTick, EndTick, Pick, At
  <2>3. ToldIsOn'
    <3>1. ASSUME NEW r \in Rcpt, NEW e \in told[r].low PROVE On(e)'
      BY <2>1 DEF AlarmsInv, ToldIsOn, On, World
    <3> QED BY <1>1, <2>1, <3>1 DEF ToldIsOn
  <2> QED BY <2>1, <2>2, <2>3 DEF AlarmsInv, ToldIsSaved, ToldIsSeen, SeenIsHeld, Reading
<1>4. ASSUME Working, ~DigestSave, ~DigestSend(TRUE)
      PROVE  AlarmsInv'
  <2>1. \A r \in Rcpt : told'[r].low = told[r].low /\ st'[r].low = st[r].low
    BY <1>0, <1>4, WorkTells, WorkSaves
  <2>2. farm' = farm
    BY <1>0, <1>4, WorkGoes DEF World
  <2>3. w.pc # "save"
    BY <1>4 DEF Working, Daily, DailySave, PowerScan, PowerCheck, PowerSave, Digest, ReadBack,
                ReadEvents, ReadLast, Send, DailySend, PowerSend, DigestSend, At
  <2>4. ToldIsOn'
    <3>1. ASSUME NEW r \in Rcpt, NEW e \in told[r].low PROVE On(e)'
      BY <2>2 DEF AlarmsInv, ToldIsOn, On
    <3> QED BY <1>1, <2>1, <3>1 DEF ToldIsOn
  <2>5. ToldIsSaved'
    BY <2>1, <2>3 DEF AlarmsInv, ToldIsSaved
  <2> QED BY <1>0, <1>4, <2>4, <2>5, SnapshotStep DEF AlarmsInv
(* what is told anew was seen by the snapshot *)
<1>5. ASSUME NEW e \in w.seen, w.pc \in Reading, e \in InEpisode(farm, {e}), farm' = farm,
             Upto' = w.t
      PROVE  (On(e) /\ \A p \in Prefs : Held(e[2], p, Upto))'
  <2>1. farm[e[1]] # Null /\ \A p \in Prefs : Held(e[2], p, w.t)
    BY <1>5 DEF AlarmsInv, SeenIsHeld
  <2>2. On(e)'
    BY <1>5, <2>1 DEF InEpisode, On
  <2> QED BY <1>5, <2>1, <2>2 DEF Held
<1>6. ASSUME DigestSend(TRUE)
      PROVE  AlarmsInv'
  <2>0. Working
    BY <1>6 DEF Working, Send, Outcome
  <2>1. w.pc = "send" /\ w' = [w EXCEPT !.pc = "save"] /\ st' = st /\ farm' = farm
    BY <1>6 DEF DigestSend, At, To, Go, World
  <2>2. /\ w'.pc = "save" /\ w'.r = w.r /\ w'.low = w.low /\ w'.seen = w.seen /\ w'.t = w.t
        /\ w.r \in Rcpt /\ Upto' = w.t
    BY <1>0, <1>b, <2>1 DEF Thread, CopyIsSaved, Upto
  <2>3. \A q \in Rcpt \ {w.r} : told'[q].low = told[q].low
    BY <1>0, <2>0, WorkTells
  <2>4. /\ told'[w.r].low \subseteq told[w.r].low \cup w.seen
        /\ told'[w.r].low = InEpisode(farm, told'[w.r].low)
    <3> DEFINE low == InEpisode(farm, told[w.r].low
                                         \cup IF "lowhash" \in w.lines THEN NewEpisodes ELSE {})
    <3>1. Digested(told[w.r]).low = low
      BY <1>0, <2>2 DEF Digested, TypeOK, Told
    <3>2. told'[w.r] = Digested(told[w.r])
      BY <1>0, <1>6, <2>2 DEF DigestSend, Tell, TypeOK
    <3>3. low \subseteq told[w.r].low \cup w.seen /\ low = InEpisode(farm, low)
      BY DEF InEpisode, NewEpisodes
    <3> QED BY <3>1, <3>2, <3>3
  <2>5. ToldIsOn'
    <3> SUFFICES ASSUME NEW r \in Rcpt, NEW e \in told'[r].low
                 PROVE  (On(e) /\ \A p \in Prefs : Held(e[2], p, Upto))'
      BY DEF ToldIsOn
    <3>1. CASE e \in told[r].low
      <4>1. On(e)'
        BY <2>1, <3>1 DEF AlarmsInv, ToldIsOn, On
      <4> QED BY <1>1, <3>1, <4>1
    <3>2. CASE e \notin told[r].low
      <4>1. r = w.r /\ e \in w.seen /\ e \in InEpisode(farm, {e})
        BY <2>3, <2>4, <3>2 DEF InEpisode
      <4> QED BY <1>5, <2>1, <2>2, <4>1 DEF Reading
    <3> QED BY <3>1, <3>2
  <2>6. ToldIsSaved'
    BY <2>1, <2>2, <2>3 DEF AlarmsInv, ToldIsSaved
  <2>7. ToldIsSeen'
    <3>1. \A e \in told[w.r].low \cup w.seen : e[1] \in w.low
      BY <2>1 DEF AlarmsInv, ToldIsSeen, SeenIsHeld, Reading
    <3> QED BY <2>2, <2>4, <3>1 DEF ToldIsSeen
  <2>8. SeenIsHeld'
    BY <2>1, <2>2 DEF AlarmsInv, SeenIsHeld, Reading, Held
  <2> QED BY <2>5, <2>6, <2>7, <2>8 DEF AlarmsInv
<1>7. ASSUME DigestSave
      PROVE  AlarmsInv'
  <2>0. Working
    BY <1>7 DEF Working
  <2>1. /\ w.pc = "save" /\ st' = [st EXCEPT ![w.r] = w.new] /\ farm' = farm /\ w'.pc = "next"
        /\ w.r \in Rcpt
    BY <1>0, <1>7, IdleThreadType
       DEF DigestSave, At, Save, World, NextRecipient, Go, Thread, CopyIsSaved
  <2>2. Upto' = w.t
    BY <1>0, <2>0, <2>1, WorkGoes DEF Upto
  <2>3. \A q \in Rcpt \ {w.r} : told'[q].low = told[q].low /\ st'[q].low = st[q].low
    BY <1>0, <2>0, WorkTells, WorkSaves
  <2>4. st'[w.r].low = w.low
    BY <1>0, <2>1 DEF DigestCopies, Reading, TypeOK
  <2>5. told'[w.r].low = told[w.r].low \/ told'[w.r].low = InEpisode(farm, w.seen)
    <3> DEFINE x == [told[w.r] EXCEPT !.down = w.new.off, !.ev = 1..w.new.ev,
                                      !.low = InEpisode(farm, w.seen)]
    <3>1. x.low = InEpisode(farm, w.seen)
      BY <1>0, <2>1 DEF TypeOK, Told
    <3>2. told' = told \/ told' = [told EXCEPT ![w.r] = x]
      BY <1>7 DEF DigestSave, Tell
    <3> HIDE DEF x
    <3> QED BY <1>0, <2>1, <3>1, <3>2 DEF TypeOK
  <2>6. ToldIsOn'
    <3> SUFFICES ASSUME NEW r \in Rcpt, NEW e \in told'[r].low
                 PROVE  (On(e) /\ \A p \in Prefs : Held(e[2], p, Upto))'
      BY DEF ToldIsOn
    <3>1. CASE e \in told[r].low
      <4>1. On(e)'
        BY <2>1, <3>1 DEF AlarmsInv, ToldIsOn, On
      <4> QED BY <1>1, <3>1, <4>1
    <3>2. CASE e \notin told[r].low
      <4>1. e \in w.seen /\ e \in InEpisode(farm, {e})
        BY <2>3, <2>5, <3>2 DEF InEpisode
      <4> QED BY <1>5, <2>1, <2>2, <4>1 DEF Reading
    <3> QED BY <3>1, <3>2
  <2>7. ToldIsSaved'
    <3>1. \A e \in told[w.r].low \cup w.seen : e[1] \in w.low
      BY <2>1 DEF AlarmsInv, ToldIsSeen, SeenIsHeld, Reading
    <3>2. \A e \in told'[w.r].low : e[1] \in st'[w.r].low
      BY <2>4, <2>5, <3>1 DEF InEpisode
    <3>3. \A r \in Rcpt \ {w.r} : \A e \in told'[r].low : e[1] \in st'[r].low
      BY <2>3 DEF AlarmsInv, ToldIsSaved
    <3> QED BY <3>2, <3>3 DEF ToldIsSaved
  <2> QED BY <2>1, <2>6, <2>7 DEF AlarmsInv, ToldIsSeen, SeenIsHeld, Reading
<1>8. ~Crash
  BY DEF Crash
<1> QED BY <1>2, <1>3, <1>4, <1>6, <1>7, <1>8 DEF Next, ThreadStep, Working

(* A pass that is not cut short tells no pool or worker change twice, and no  *)
(* episode of an alarm, to a recipient who keeps the hold he asked for;       *)
(* failed calls only make it tell less.                                       *)
THEOREM NeverTwice ==
  ASSUME ~MayCrash, SameHold
  PROVE  Spec => NothingToldTwice
<1> DEFINE IInv == TypeInv /\ OnceInv /\ EventsInv /\ AlarmsInv
           News == \A ok \in BOOLEAN : DigestSend(ok) =>
                      /\ "pool" \in w.lines => w.pool \cap told[w.r].ev = {}
                      /\ "lowhash" \in w.lines => NewEpisodes \cap told[w.r].low = {}
<1>1. Init => IInv
  <2> SUFFICES ASSUME Init PROVE IInv
    OBVIOUS
  <2>1. w.pc = "idle" /\ w.t = 0 /\ now = 0 /\ ev = 0
    BY DEF Init, IdleThread
  <2>2. \A r \in Rcpt : st[r].ev = 0 /\ told[r].ev = {} /\ told[r].low = {}
    BY DEF Init, NoState
  <2>3. OnceInv
    BY <2>1 DEF OnceInv, CopyIsSaved, PowerCopies, DigestCopies, Reading, PassBegan
  <2>4. EventsInv
    BY <2>1, <2>2 DEF EventsInv, PoolNew, PoolRead, ToldPast
  <2>5. AlarmsInv
    BY <2>1, <2>2 DEF AlarmsInv, ToldIsOn, ToldIsSaved, ToldIsSeen, SeenIsHeld, Reading
  <2> QED BY <2>3, <2>4, <2>5, InitReported
<1>2. IInv /\ [Next]_vars => IInv'
  BY TypeStep, OnceStep, EventsStep, AlarmsStep
<1>3. IInv /\ [Next]_vars => [News]_vars
  <2> SUFFICES ASSUME IInv, NEW ok \in BOOLEAN, DigestSend(ok)
               PROVE  w.pool \cap told[w.r].ev = {} /\ NewEpisodes \cap told[w.r].low = {}
    OBVIOUS
  <2>1. w.pc = "send"
    BY DEF DigestSend, At
  <2>2. w.r \in Rcpt /\ w.s = st[w.r]
    BY <2>1 DEF OnceInv, CopyIsSaved
  <2>3. w.pool \cap told[w.r].ev = {}
    <3>1. \A e \in w.pool : e \in Nat /\ w.s.ev < e
      BY <2>1 DEF EventsInv, PoolNew, TypeInv, TypeOK, Thread
    <3>2. \A e \in told[w.r].ev : e <= w.s.ev
      BY <2>1, <2>2 DEF EventsInv, ToldPast, Cursor
    <3>3. w.s.ev \in Nat
      BY DEF TypeInv, TypeOK, Thread, State
    <3> QED BY <3>1, <3>2, <3>3
  <2>4. NewEpisodes \cap told[w.r].low = {}
    <3>1. \A e \in told[w.r].low : e[1] \in w.s.low
      BY <2>1, <2>2 DEF AlarmsInv, ToldIsSaved
    <3> QED BY <3>1 DEF NewEpisodes, NewLow
  <2> QED BY <2>3, <2>4
<1> QED BY <1>1, <1>2, <1>3, PTL DEF Spec, NothingToldTwice
=============================================================================
