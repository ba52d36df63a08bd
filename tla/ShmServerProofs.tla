-------------------------- MODULE ShmServerProofs --------------------------
(***************************************************************************)
(* The records in shared memory, for any number of processes and records:  *)
(* who owns a record, and what becomes of a message in its buffer.         *)
(*                                                                         *)
(* There is no lock, so the argument is about what each process may rely   *)
(* on between two of its accesses.  Only a process in client_init writes   *)
(* its pid anywhere, so a record that is a newcomer's stays so until the   *)
(* newcomer gives it up.  A message that is put into a buffer while its    *)
(* owner cannot handle signals yet is followed by another: the newcomer's  *)
(* own greeting, which it sends to itself as to all others.  And a sender  *)
(* that has passed an index does not come back to it.                      *)
(***************************************************************************)
EXTENDS ShmServer, TLAPS

Looping == {"check", "put", "kill"}

(* What a process has where it is.                                         *)
PlaceOf(p) ==
    /\ pc[p] \in Serving \union {"wipe"} => uid[p] \in Slots
    /\ pc[p] \in {"claim", "claimed", "put", "kill"} => i[p] \in Slots
    /\ pc[p] \in Joining \union {"away", "homed"} => msg[p] = Blank
    /\ pc[p] \in Looping \union {"prompt", "clean", "wipe"} => msg[p] \in Messages /\ msg[p].by = p
    /\ pc[p] \in Looping /\ msg[p].kind = "entered" => last[p] = MaxSlot
    /\ pc[p] \in {"clean", "wipe"} <=> (msg[p].kind = "left" /\ pc[p] \notin Looping)
    /\ pc[p] \in {"off", "gone"} => msg[p].kind = "blank"
    /\ pc[p] \in Joining \union {"away"} => uid[p] = 0
    /\ handling[p] => uid[p] # 0
    /\ uid[p] = 0 => shown[p] = {}

Places == \A p \in Procs : PlaceOf(p)

(* If connections are made one at a time, whoever has looked at a record   *)
(* finds it as it was.                                                     *)
Owned ==
    orderly =>
        /\ \A p, q \in Procs : pc[p] \in Joining /\ pc[q] \in Joining => p = q
        /\ \A p \in Procs :
              /\ pc[p] = "claim" => pid[i[p]] = NoProc
              /\ pc[p] = "claimed" => pid[i[p]] = p
              /\ pc[p] \in Serving => pid[uid[p]] = p

(* The greeting of p has come to its own record.                           *)
Greeted(p) ==
    \/ pc[p] = "prompt"
    \/ /\ pc[p] \in Looping
       /\ \/ msg[p].kind # "entered"
          \/ i[p] > uid[p]
          \/ i[p] = uid[p] /\ pc[p] = "kill"

SignalFor(p) ==
    \/ pending[p] \/ handling[p]
    \/ \E q \in Procs : pc[q] = "kill" /\ i[q] = uid[p]

Signals ==
    \A p \in Procs :
        Greeted(p) /\ pid[uid[p]] = p /\ box[uid[p]] # Blank => SignalFor(p)

(* q has said what it says to the record s.                                *)
Done(q, s) ==
    \/ pc[q] = "gone"
    \/ msg[q].kind = "left"
    \/ /\ msg[q].kind = "said"
       /\ pc[q] = "prompt" \/ i[q] > s \/ (i[q] = s /\ pc[q] = "kill")

Once ==
    /\ \A s \in Slots, q \in Procs : box[s] = Text("said", q) => Done(q, s)
    /\ \A p, q \in Procs : Text("said", q) \in shown[p] =>
          /\ Done(q, uid[p])
          /\ box[uid[p]] = Text("said", q) => handling[p]
    /\ \A p \in Procs : \A m \in shown[p] : m.kind = "said"

IInv == TypeOK /\ Places /\ Owned /\ Signals /\ Once

-----------------------------------------------------------------------------
(* Texts.                                                                  *)

(* A text says who says it.                                                *)
LEMMA Texts ==
    /\ \A k, p : Text(k, p).kind = k /\ Text(k, p).by = p
    /\ \A k, p, l, q : Text(k, p) = Text(l, q) => k = l /\ p = q
    /\ \A k \in {"entered", "left", "said"}, p \in Procs : Text(k, p) \in Messages /\ Text(k, p) # Blank
    /\ \A m \in Messages : m # Blank /\ m = Text(m.kind, m.by) /\ m.kind \in {"entered", "left", "said"}
    /\ Blank.kind = "blank"
  BY ShmServerAssumption DEF Text, Messages, Blank

-----------------------------------------------------------------------------
(* Types.                                                                  *)

LEMMA Goes ==
    ASSUME TypeOK, NEW p \in Procs, NEW l \in Locations, Goto(p, l)
    PROVE  pc' \in [Procs -> Locations] /\ pc'[p] = l
  BY DEF TypeOK, Goto

LEMMA NextIndexTypes ==
    ASSUME TypeOK, NEW p \in Procs, NextIndex(p)
    PROVE  pc' \in [Procs -> Locations] /\ i' \in [Procs -> 1..MaxSlot + 1]
  <1>1. /\ i \in [Procs -> 1..MaxSlot + 1] /\ last[p] \in 0..MaxSlot /\ MaxSlot \in Nat \ {0}
        /\ {"check", "clean", "prompt"} \subseteq Locations
    BY ShmServerAssumption DEF TypeOK, Locations
  <1>2. CASE i[p] < last[p] /\ i' = [i EXCEPT ![p] = @ + 1] /\ Goto(p, "check")
    BY <1>1, <1>2, Goes
  <1>3. CASE i' = [i EXCEPT ![p] = 1] /\ Goto(p, IF msg[p].kind = "left" THEN "clean" ELSE "prompt")
    BY <1>1, <1>3, Goes
  <1> QED
    BY <1>2, <1>3 DEF NextIndex

(* Each step writes what the variables are for.                            *)
LEMMA StepTypeOK ==
    ASSUME TypeOK, Places, NEW p \in Procs, User(p) \/ Code(p) \/ Handler(p)
    PROVE  TypeOK'
  <1>0. /\ MaxSlot \in Nat \ {0} /\ 1 \in Slots /\ MaxSlot \in Slots
        /\ \A s \in Slots : s \in 1..MaxSlot + 1 /\ s \in 0..MaxSlot
        /\ \A l \in {"away", "scan", "claim", "claimed", "homed", "check", "put", "kill",
              "prompt", "clean", "wipe", "gone", "off"} : l \in Locations
    BY ShmServerAssumption DEF Slots, Locations
  <1>1. CASE Connect(p)
    <2>1. pc' \in [Procs -> Locations]
      BY <1>0, <1>1, Goes DEF Connect
    <2> QED
      BY <1>1, <2>1 DEF Connect, TypeOK, memory, signals
  <1>2. CASE Scan(p)
    <2>1. pc' \in [Procs -> Locations]
      BY <1>0, <1>2, Goes DEF Scan, TypeOK
    <2>2. i' \in [Procs -> 1..MaxSlot + 1]
      BY <1>0, <1>2 DEF Scan, TypeOK
    <2> QED
      BY <1>2, <2>1, <2>2 DEF Scan, TypeOK, memory, signals
  <1>3. CASE Claim(p)
    <2>1. pc' \in [Procs -> Locations]
      BY <1>0, <1>3, Goes DEF Claim
    <2> QED
      BY <1>3, <2>1 DEF Claim, TypeOK, signals
  <1>4. CASE Return(p)
    <2>1. pc' \in [Procs -> Locations]
      BY <1>0, <1>4, Goes DEF Return
    <2>2. i[p] \in 0..MaxSlot
      BY <1>0, <1>4 DEF Return, At, Places, PlaceOf
    <2> QED
      BY <1>4, <2>1, <2>2 DEF Return, TypeOK, memory, signals
  <1>5. ASSUME NEW m \in Messages, NEW from \in Slots, NEW to \in Slots, Speak(p, m, from, to)
        PROVE  TypeOK'
    <2>1. pc' \in [Procs -> Locations]
      BY <1>0, <1>5, Goes DEF Speak
    <2> QED
      BY <1>0, <1>5, <2>1 DEF Speak, TypeOK, memory, signals
  <1>6. CASE Enter(p) \/ Yell(p) \/ Exit(p) \/ \E s \in Slots : Tell(p, s)
    BY <1>0, <1>5, <1>6, Texts DEF Enter, Yell, Exit, Tell
  <1>7. CASE Check(p)
    <2>1. pc' \in [Procs -> Locations] /\ i' \in [Procs -> 1..MaxSlot + 1]
      BY <1>0, <1>7, Goes, NextIndexTypes DEF Check, TypeOK
    <2> QED
      BY <1>7, <2>1 DEF Check, TypeOK, memory, signals
  <1>8. CASE Put(p)
    <2>1. pc' \in [Procs -> Locations]
      BY <1>0, <1>8, Goes DEF Put
    <2>2. msg[p] \in Messages \union {Blank}
      BY DEF TypeOK
    <2> QED
      BY <1>8, <2>1, <2>2 DEF Put, TypeOK, signals
  <1>9. CASE Kill(p)
    <2>1. pc' \in [Procs -> Locations] /\ i' \in [Procs -> 1..MaxSlot + 1]
      BY <1>9, NextIndexTypes DEF Kill
    <2>2. pending' \in [Procs -> BOOLEAN]
      BY <1>9 DEF Kill, TypeOK
    <2> QED
      BY <1>9, <2>1, <2>2 DEF Kill, TypeOK, memory
  <1>10. CASE Show(p)
    <2>1. shown' \in [Procs -> SUBSET Messages]
      <3>1. uid[p] # 0 => box[uid[p]] \in Messages \union {Blank}
        BY <1>0 DEF TypeOK, Slots
      <3> QED
        BY <1>10, <3>1, Texts DEF Show, TypeOK
    <2> QED
      BY <1>10, <2>1 DEF Show, TypeOK, memory
  <1>11. CASE Erase(p)
    BY <1>11 DEF Erase, TypeOK
  <1>12. CASE Release(p)
    <2>1. pc' \in [Procs -> Locations]
      BY <1>0, <1>12, Goes DEF Release
    <2> QED
      BY <1>12, <2>1 DEF Release, TypeOK, signals
  <1>13. CASE Wipe(p)
    <2>1. pc' \in [Procs -> Locations]
      BY <1>0, <1>13, Goes DEF Wipe
    <2> QED
      <3>1. uid' \in [Procs -> 0..MaxSlot] /\ last' \in [Procs -> 0..MaxSlot]
        BY <1>0, <1>13 DEF Wipe, TypeOK
      <3>2. msg' \in [Procs -> Messages \union {Blank}] /\ box' \in [Slots -> Messages \union {Blank}]
        BY <1>13 DEF Wipe, TypeOK
      <3>3. pending' \in [Procs -> BOOLEAN] /\ shown' \in [Procs -> SUBSET Messages]
        BY <1>13 DEF Wipe, TypeOK
      <3> QED
        BY <1>13, <2>1, <3>1, <3>2, <3>3 DEF Wipe, TypeOK
  <1> QED
    BY <1>1, <1>2, <1>3, <1>4, <1>6, <1>7, <1>8, <1>9, <1>10, <1>11, <1>12, <1>13
    DEF User, Code, Handler

-----------------------------------------------------------------------------
(* Where processes are.                                                    *)

(* A process changes nothing that another process alone knows.             *)
LEMMA Private ==
    ASSUME TypeOK, NEW p \in Procs, User(p) \/ Code(p) \/ Handler(p)
    PROVE  \A q \in Procs \ {p} :
              /\ pc'[q] = pc[q] /\ uid'[q] = uid[q] /\ i'[q] = i[q] /\ last'[q] = last[q]
              /\ msg'[q] = msg[q] /\ handling'[q] = handling[q] /\ shown'[q] = shown[q]
  <1> USE DEF TypeOK, Goto, memory, signals
  <1>1. CASE Connect(p) \/ Scan(p) \/ Claim(p) \/ Return(p)
    BY <1>1 DEF Connect, Scan, Claim, Return
  <1>2. CASE Enter(p) \/ Yell(p) \/ Exit(p) \/ \E s \in Slots : Tell(p, s)
    BY <1>2 DEF Enter, Yell, Exit, Tell, Speak
  <1>3. CASE Check(p) \/ Put(p) \/ Kill(p)
    BY <1>3 DEF Check, Put, Kill, NextIndex
  <1>4. CASE Release(p) \/ Wipe(p)
    BY <1>4 DEF Release, Wipe
  <1>5. CASE Show(p) \/ Erase(p)
    BY <1>5 DEF Show, Erase
  <1> QED
    BY <1>1, <1>2, <1>3, <1>4, <1>5 DEF User, Code, Handler

(* After the last index the loop is left.                                  *)
LEMMA NextPlace ==
    ASSUME TypeOK, NEW p \in Procs, NextIndex(p)
    PROVE  \/ pc'[p] = "check" /\ i[p] < last[p] /\ i'[p] = i[p] + 1
           \/ pc'[p] = "prompt" /\ ~(i[p] < last[p]) /\ i'[p] = 1 /\ msg[p].kind # "left"
           \/ pc'[p] = "clean" /\ ~(i[p] < last[p]) /\ i'[p] = 1 /\ msg[p].kind = "left"
  BY DEF TypeOK, NextIndex, Goto

(* Each location is reached with what is needed there.                     *)
LEMMA StepPlaces ==
    ASSUME TypeOK, Places, NEW p \in Procs, User(p) \/ Code(p) \/ Handler(p)
    PROVE  Places'
  <1>1. \A q \in Procs \ {p} : PlaceOf(q)'
    BY Private DEF Places, PlaceOf
  <1>2. PlaceOf(p)'
    <2> USE DEF TypeOK, Places, PlaceOf, Goto, At, memory, signals, Joining, Serving, Looping
    <2>1. CASE Connect(p) \/ Claim(p) \/ Return(p)
      BY <2>1, Texts DEF Connect, Claim, Return, Slots
    <2>2. CASE Scan(p)
      <3>1. CASE i[p] > MaxSlot
        BY <2>2, <3>1, Texts DEF Scan, Slots
      <3>2. CASE i[p] \in Slots
        BY <2>2, <3>2, Texts DEF Scan, Slots
      <3> QED
        BY <3>1, <3>2, ShmServerAssumption DEF Slots
    <2>3. ASSUME NEW m \in Messages, NEW from \in Slots, NEW to \in Slots, Speak(p, m, from, to),
                 m.by = p, m.kind = "entered" => to = MaxSlot, pc[p] \in {"homed", "prompt"}
          PROVE  PlaceOf(p)'
      BY <2>3, Texts DEF Speak
    <2>4. CASE Enter(p) \/ Yell(p) \/ Exit(p) \/ \E s \in Slots : Tell(p, s)
      <3>1. 1 \in Slots /\ MaxSlot \in Slots
        BY ShmServerAssumption DEF Slots
      <3>2. \A k \in {"entered", "left", "said"} :
               Text(k, p) \in Messages /\ Text(k, p).by = p /\ Text(k, p).kind = k
        BY Texts
      <3>3. CASE Enter(p)
        BY <2>3, <3>1, <3>2, <3>3 DEF Enter
      <3>4. CASE Yell(p)
        BY <2>3, <3>1, <3>2, <3>4 DEF Yell
      <3>5. CASE Exit(p)
        BY <2>3, <3>1, <3>2, <3>5 DEF Exit
      <3>6. CASE \E s \in Slots : Tell(p, s)
        BY <2>3, <3>1, <3>2, <3>6 DEF Tell
      <3> QED
        BY <2>4, <3>3, <3>4, <3>5, <3>6
    <2>5. CASE Check(p) \/ Kill(p)
      BY <2>5, Texts DEF Check, Kill, NextIndex
    <2>6. CASE Put(p)
      BY <2>6, Texts DEF Put
    <2>7. CASE Release(p)
      BY <2>7, Texts DEF Release
    <2>8. CASE Wipe(p)
      BY <2>8, Texts DEF Wipe
    <2>9. CASE Show(p) \/ Erase(p)
      BY <2>9, Texts DEF Show, Erase
    <2> QED
      BY <2>1, <2>2, <2>4, <2>5, <2>6, <2>7, <2>8, <2>9 DEF User, Code, Handler
  <1> QED
    BY <1>1, <1>2 DEF Places

-----------------------------------------------------------------------------
(* Who owns a record.                                                      *)

(* Between the look at a record and the claim nobody else claims.          *)
LEMMA StepOwned ==
    ASSUME TypeOK, Places, Owned, NEW p \in Procs, User(p) \/ Code(p) \/ Handler(p)
    PROVE  Owned'
  <1> SUFFICES ASSUME orderly' PROVE Owned'
    BY DEF Owned
  <1>1. orderly' = orderly
    BY DEF User, Code, Handler, Connect, Scan, Claim, Return, Enter, Yell, Exit, Tell, Speak,
           Check, Put, Kill, Release, Wipe, Show, Erase
  <1>2. /\ \A x, y \in Procs : pc[x] \in Joining /\ pc[y] \in Joining => x = y
        /\ \A x \in Procs :
              /\ pc[x] = "claim" => pid[i[x]] = NoProc
              /\ pc[x] = "claimed" => pid[i[x]] = x
              /\ pc[x] \in Serving => pid[uid[x]] = x
    BY <1>1 DEF Owned
  <1>3. \A q \in Procs \ {p} : pc'[q] = pc[q] /\ uid'[q] = uid[q] /\ i'[q] = i[q]
    BY Private
  <1>4. ASSUME UNCHANGED pid, pc'[p] \in Joining => pc[p] \in Joining,
               pc'[p] = "claim" => pid[i'[p]] = NoProc,
               pc'[p] = "claimed" => pid[i'[p]] = p,
               pc'[p] \in Serving => pid[uid'[p]] = p
        PROVE  Owned'
    BY <1>1, <1>2, <1>3, <1>4 DEF Owned
  <1> USE DEF TypeOK, Places, PlaceOf, Goto, At, memory, signals, Joining, Serving, Looping
  <1>5. CASE Connect(p)
    <2>1. \A q \in Procs : pc[q] \notin Joining
      BY <1>1, <1>5 DEF Connect
    <2> QED
      BY <1>1, <1>2, <1>3, <1>5, <2>1 DEF Connect, Owned
  <1>6. CASE Scan(p)
    BY <1>4, <1>6 DEF Scan
  <1>7. CASE Claim(p)
    <2>1. i[p] \in Slots /\ pid'[i[p]] = p /\ \A s \in Slots \ {i[p]} : pid'[s] = pid[s]
      BY <1>7 DEF Claim
    <2>2. pc[p] = "claim" /\ pc'[p] = "claimed" /\ i' = i /\ uid' = uid /\ pid[i[p]] = NoProc
      BY <1>2, <1>7 DEF Claim
    <2>3. ASSUME NEW x \in Procs \ {p}
          PROVE  /\ pc'[x] \notin Joining
                 /\ pc'[x] \in Serving => pid'[uid'[x]] = x
      <3>1. pc'[x] = pc[x] /\ pc[x] \notin Joining
        BY <1>2, <1>3, <2>2
      <3>2. pc[x] \in Serving => uid[x] \in Slots /\ pid[uid[x]] = x
        BY <1>2
      <3> QED
        BY <2>1, <2>2, <3>1, <3>2, ShmServerAssumption
    <2> QED
      BY <1>1, <2>1, <2>2, <2>3 DEF Owned
  <1>8. CASE Return(p)
    BY <1>2, <1>4, <1>8 DEF Return
  <1>9. ASSUME UNCHANGED <<pid, uid>>, pc[p] \in Serving, pc'[p] \in Serving
        PROVE  Owned'
    BY <1>2, <1>4, <1>9
  <1>10. CASE Enter(p) \/ Yell(p) \/ Exit(p) \/ \E s \in Slots : Tell(p, s)
    <2>1. UNCHANGED <<pid, uid>> /\ pc[p] \in {"homed", "prompt"} /\ pc'[p] = "check"
      BY <1>10 DEF Enter, Yell, Exit, Tell, Speak
    <2> QED
      BY <1>9, <2>1
  <1>11. CASE Check(p) \/ Put(p) \/ Kill(p)
    <2>1. UNCHANGED <<pid, uid>> /\ pc[p] \in Looping
      BY <1>11 DEF Check, Put, Kill
    <2>2. pc'[p] \in Looping \union {"clean", "prompt"}
      <3>1. CASE NextIndex(p)
        BY <3>1, NextPlace
      <3>2. CASE Goto(p, "put") \/ Goto(p, "kill")
        BY <3>2
      <3> QED
        BY <1>11, <3>1, <3>2 DEF Check, Put, Kill
    <2> QED
      BY <1>9, <2>1, <2>2
  <1>12. CASE Release(p)
    <2>1. /\ pc'[p] = "wipe" /\ i' = i /\ uid' = uid /\ uid[p] \in Slots /\ pid[uid[p]] = p
          /\ \A s \in Slots : pid'[s] = IF s = uid[p] THEN NoProc ELSE pid[s]
      BY <1>2, <1>12 DEF Release
    <2>2. \A x \in Procs \ {p} :
             /\ pc[x] = "claim" => i[x] \in Slots /\ pid'[i[x]] = NoProc
             /\ pc[x] = "claimed" => i[x] \in Slots /\ pid'[i[x]] = x
             /\ pc[x] \in Serving => uid[x] \in Slots /\ pid'[uid[x]] = x
      BY <1>2, <2>1
    <2> QED
      BY <1>1, <1>2, <1>3, <2>1, <2>2 DEF Owned
  <1>13. CASE Wipe(p)
    BY <1>4, <1>13 DEF Wipe
  <1>14. CASE Show(p) \/ Erase(p)
    <2>1. UNCHANGED <<pid, uid, pc, i>>
      BY <1>14 DEF Show, Erase
    <2> QED
      BY <1>2, <1>4, <2>1
  <1> QED
    BY <1>5, <1>6, <1>7, <1>8, <1>10, <1>11, <1>12, <1>13, <1>14 DEF User, Code, Handler

-----------------------------------------------------------------------------
(* What becomes of a message.                                              *)

(* What a step of p does to the shared memory and to the others' signals.  *)
LEMMA Shared ==
    ASSUME TypeOK, Places, NEW p \in Procs, User(p) \/ Code(p) \/ Handler(p)
    PROVE  /\ \A x \in Procs, s \in Slots : pid'[s] = x => pid[s] = x \/ (x = p /\ pc'[p] = "claimed")
           /\ \A s \in Slots : \/ box'[s] \in {box[s], Blank}
                               \/ Put(p) /\ s = i[p] /\ box'[s] = msg[p] /\ pc'[p] = "kill" /\ i'[p] = s
           /\ \A x \in Procs \ {p} : pending[x] => pending'[x]
           /\ pc[p] = "kill" => \/ pc'[p] = "kill" /\ i'[p] = i[p]
                                \/ \A x \in Procs : pid[i[p]] = x /\ pc[x] \in Living => pending'[x]
  <1>1. CASE Connect(p) \/ Scan(p) \/ Return(p)
    BY <1>1 DEF Connect, Scan, Return, At, memory, signals
  <1>2. CASE Claim(p)
    <2>1. /\ pc[p] = "claim" /\ pc'[p] = "claimed" /\ UNCHANGED <<box, signals>>
          /\ \A s \in Slots : pid'[s] \in {pid[s], p}
      BY <1>2 DEF Claim, At, Goto, TypeOK
    <2> QED
      BY <2>1 DEF signals
  <1>3. CASE Enter(p) \/ Yell(p) \/ Exit(p) \/ \E s \in Slots : Tell(p, s)
    BY <1>3 DEF Enter, Yell, Exit, Tell, Speak, At, memory, signals
  <1>4. CASE Check(p)
    BY <1>4 DEF Check, At, memory, signals
  <1>5. CASE Put(p)
    <2>1. /\ pc[p] = "put" /\ UNCHANGED <<pid, i, signals>> /\ pc'[p] = "kill"
          /\ \A s \in Slots : box'[s] = IF s = i[p] THEN msg[p] ELSE box[s]
      BY <1>5 DEF Put, At, Goto, TypeOK
    <2> QED
      BY <1>5, <2>1 DEF signals
  <1>6. CASE Kill(p)
    <2>1. /\ pc[p] = "kill" /\ UNCHANGED memory /\ i[p] \in Slots
          /\ \A q \in Procs : pending'[q] =
                (pending[q] \/ (pc[q] \in Living /\ IF pid[i[p]] = NoProc THEN q # p ELSE q = pid[i[p]]))
      BY <1>6 DEF Kill, At, Places, PlaceOf
    <2>2. \A x \in Procs : pending[x] => pending'[x]
      BY <2>1
    <2>3. \A x \in Procs : pid[i[p]] = x /\ pc[x] \in Living => pending'[x]
      BY <2>1, ShmServerAssumption
    <2> QED
      BY <2>1, <2>2, <2>3 DEF memory
  <1>7. CASE Release(p)
    <2>1. /\ pc[p] = "clean" /\ UNCHANGED <<box, signals>>
          /\ \A s \in Slots : pid'[s] \in {pid[s], NoProc}
      BY <1>7 DEF Release, At, TypeOK
    <2> QED
      BY <2>1, ShmServerAssumption DEF signals
  <1>8. CASE Wipe(p)
    <2>1. /\ pc[p] = "wipe" /\ UNCHANGED pid
          /\ \A s \in Slots : box'[s] \in {box[s], Blank}
          /\ \A x \in Procs \ {p} : pending'[x] = pending[x]
      BY <1>8 DEF Wipe, At, TypeOK
    <2> QED
      BY <2>1
  <1>9. CASE Show(p)
    <2>1. UNCHANGED <<memory, pc, i>> /\ \A x \in Procs \ {p} : pending'[x] = pending[x]
      BY <1>9 DEF Show, TypeOK
    <2> QED
      BY <2>1 DEF memory
  <1>10. CASE Erase(p)
    <2>1. UNCHANGED <<pid, pending, pc, i>> /\ \A s \in Slots : box'[s] \in {box[s], Blank}
      BY <1>10 DEF Erase, TypeOK
    <2> QED
      BY <2>1
  <1> QED
    BY <1>1, <1>2, <1>3, <1>4, <1>5, <1>6, <1>7, <1>8, <1>9, <1>10 DEF User, Code, Handler

(* Who is served has an index for its record.                              *)
LEMMA GreetedHasRecord ==
    ASSUME Places, NEW p \in Procs, Greeted(p)
    PROVE  uid[p] \in Slots /\ pc[p] \in Living
  BY DEF Places, PlaceOf, Greeted, Looping, Serving, Living, Locations

(* A step of p leaves no message for another user without its signal.      *)
LEMMA OthersSignalled ==
    ASSUME TypeOK, Places, Signals, NEW p \in Procs, User(p) \/ Code(p) \/ Handler(p),
           NEW x \in Procs \ {p}, Greeted(x)', pid'[uid'[x]] = x, box'[uid'[x]] # Blank
    PROVE  SignalFor(x)'
  <1>1. pc'[x] = pc[x] /\ uid'[x] = uid[x] /\ i'[x] = i[x] /\ msg'[x] = msg[x] /\ handling'[x] = handling[x]
    BY Private
  <1>2. Greeted(x)
    BY <1>1 DEF Greeted
  <1>3. uid[x] \in Slots /\ pc[x] \in Living /\ pid[uid[x]] = x
    BY <1>1, <1>2, GreetedHasRecord, Shared
  <1>4. CASE box'[uid[x]] \notin {box[uid[x]], Blank}
    BY <1>1, <1>3, <1>4, Shared DEF SignalFor
  <1>5. CASE box'[uid[x]] = box[uid[x]]
    <2>1. SignalFor(x)
      BY <1>1, <1>2, <1>3, <1>5 DEF Signals
    <2>2. CASE pending[x] \/ handling[x]
      BY <1>1, <2>2, Shared DEF SignalFor
    <2>3. CASE pc[p] = "kill" /\ i[p] = uid[x]
      <3>1. CASE pc'[p] = "kill" /\ i'[p] = i[p]
        BY <1>1, <2>3, <3>1 DEF SignalFor
      <3>2. CASE pending'[x]
        BY <3>2 DEF SignalFor
      <3> QED
        BY <1>3, <2>3, <3>1, <3>2, Shared
    <2>4. CASE \E q \in Procs \ {p} : pc[q] = "kill" /\ i[q] = uid[x]
      <3>1. \A q \in Procs \ {p} : pc'[q] = pc[q] /\ i'[q] = i[q]
        BY Private
      <3> QED
        BY <1>1, <2>4, <3>1 DEF SignalFor
    <2> QED
      BY <2>1, <2>2, <2>3, <2>4 DEF SignalFor
  <1> QED
    BY <1>1, <1>4, <1>5

(* Nor does it leave one for p, once it has greeted itself: at its own     *)
(* record the loop finds its own pid, so it sends itself the signal.       *)
LEMMA OwnSignalled ==
    ASSUME TypeOK, Places, Signals, NEW p \in Procs, User(p) \/ Code(p) \/ Handler(p),
           Greeted(p)', pid'[uid'[p]] = p, box'[uid'[p]] # Blank
    PROVE  SignalFor(p)'
  <1> USE DEF At, Goto, memory, signals
  <1>0. /\ pc \in [Procs -> Locations] /\ i \in [Procs -> 1..MaxSlot + 1] /\ last[p] \in 0..MaxSlot
        /\ uid[p] \in 0..MaxSlot /\ MaxSlot \in Nat \ {0} /\ PlaceOf(p)
    BY ShmServerAssumption DEF TypeOK, Places
  <1>1. CASE Connect(p) \/ Scan(p) \/ Claim(p) \/ Return(p) \/ Release(p) \/ Wipe(p)
    <2>1. pc'[p] \notin Looping \union {"prompt"}
      BY <1>0, <1>1 DEF Connect, Scan, Claim, Return, Release, Wipe, Looping
    <2> QED
      BY <2>1 DEF Greeted
  <1>2. CASE Enter(p)
    <2>1. /\ pc'[p] = "check" /\ i'[p] = 1 /\ msg'[p].kind = "entered" /\ uid'[p] \in Slots
      BY <1>0, <1>2, Texts DEF Enter, Speak, TypeOK, PlaceOf, Serving
    <2> QED
      BY <2>1 DEF Greeted, Looping, Slots
  <1>3. ASSUME UNCHANGED <<memory, signals, uid>>, Greeted(p), pc[p] # "kill" \/ i[p] # uid[p]
        PROVE  SignalFor(p)'
    <2>1. \A q \in Procs \ {p} : pc'[q] = pc[q] /\ i'[q] = i[q]
      BY Private
    <2>2. SignalFor(p)
      BY <1>3 DEF Signals
    <2> QED
      BY <1>3, <2>1, <2>2 DEF SignalFor
  <1>4. CASE Yell(p) \/ Exit(p) \/ \E s \in Slots : Tell(p, s)
    BY <1>3, <1>4 DEF Yell, Exit, Tell, Speak, Greeted
  <1>5. ASSUME NextIndex(p), pc[p] \in {"check", "kill"}, i[p] # uid[p], UNCHANGED <<msg, uid>>
        PROVE  Greeted(p)
    <2>1. CASE pc'[p] = "check" /\ i[p] < last[p] /\ i'[p] = i[p] + 1
      BY <1>0, <1>5, <2>1 DEF Greeted, Looping
    <2>2. CASE ~(i[p] < last[p])
      BY <1>0, <1>5, <2>2 DEF Greeted, Looping, PlaceOf, Slots
    <2> QED
      BY <1>5, <2>1, <2>2, NextPlace
  <1>6. CASE Check(p)
    <2>1. pc[p] = "check" /\ UNCHANGED <<msg, uid, pid, memory, signals>>
      BY <1>6 DEF Check
    <2>2. CASE i' = i /\ pc'[p] = "put"
      BY <1>3, <2>1, <2>2 DEF Greeted, Looping
    <2>3. CASE NextIndex(p) /\ ~(i[p] \in Slots /\ pid[i[p]] # NoProc)
      <3>1. uid[p] \in Slots /\ pid[uid[p]] = p
        BY <1>0, <2>1 DEF PlaceOf, Serving
      <3>2. i[p] # uid[p]
        BY <2>3, <3>1, ShmServerAssumption
      <3> QED
        BY <1>3, <1>5, <2>1, <2>3, <3>2
    <2> QED
      BY <1>0, <1>6, <2>2, <2>3 DEF Check
  <1>7. CASE Put(p)
    <2>1. /\ pc[p] = "put" /\ pc'[p] = "kill" /\ i' = i
          /\ UNCHANGED <<msg, uid, pid, signals>>
          /\ \A s \in Slots : s # i[p] => box'[s] = box[s]
      BY <1>0, <1>7 DEF Put, TypeOK
    <2>2. CASE i[p] = uid[p]
      BY <2>1, <2>2 DEF SignalFor
    <2>3. CASE i[p] # uid[p]
      <3>1. Greeted(p)
        BY <2>1, <2>3 DEF Greeted, Looping
      <3>2. uid[p] \in Slots
        BY <3>1, GreetedHasRecord
      <3>3. SignalFor(p)
        BY <2>1, <2>3, <3>1, <3>2 DEF Signals
      <3>4. \A q \in Procs \ {p} : pc'[q] = pc[q] /\ i'[q] = i[q]
        BY Private
      <3> QED
        BY <2>1, <3>3, <3>4 DEF SignalFor
    <2> QED
      BY <2>2, <2>3
  <1>8. CASE Kill(p)
    <2>1. /\ pc[p] = "kill" /\ UNCHANGED <<msg, uid, memory, handling>> /\ NextIndex(p) /\ i[p] \in Slots
          /\ \A x \in Procs : pending[x] => pending'[x]
      BY <1>0, <1>8 DEF Kill, PlaceOf, TypeOK
    <2>2. CASE i[p] = uid[p]
      <3>1. pid[i[p]] = p /\ pc[p] \in Living
        BY <2>1, <2>2 DEF Living, Locations
      <3>2. pc'[p] # "kill"
        BY <2>1, NextPlace
      <3> QED
        BY <2>1, <3>1, <3>2, Shared DEF SignalFor
    <2>3. CASE i[p] # uid[p]
      <3>1. SignalFor(p)
        BY <1>5, <2>1, <2>3 DEF Signals
      <3>2. \A q \in Procs \ {p} : pc'[q] = pc[q] /\ i'[q] = i[q]
        BY Private
      <3> QED
        BY <2>1, <2>3, <3>1, <3>2 DEF SignalFor
    <2> QED
      BY <2>2, <2>3
  <1>9. CASE Show(p)
    <2>1. UNCHANGED <<pc, i, uid, msg>> /\ handling'[p] = (uid[p] # 0)
      BY <1>9 DEF Show, TypeOK
    <2>2. Greeted(p)
      BY <2>1 DEF Greeted
    <2>3. uid[p] # 0
      BY <2>2, GreetedHasRecord DEF Slots
    <2> QED
      BY <2>1, <2>3 DEF SignalFor
  <1>10. CASE Erase(p)
    <2>1. uid' = uid /\ uid[p] \in Slots
      BY <1>0, <1>10 DEF Erase, PlaceOf, Slots
    <2>2. box'[uid[p]] = Blank
      BY <1>10, <2>1 DEF Erase, TypeOK
    <2> QED
      BY <2>1, <2>2
  <1> QED
    BY <1>1, <1>2, <1>4, <1>6, <1>7, <1>8, <1>9, <1>10 DEF User, Code, Handler

LEMMA StepSignals ==
    ASSUME TypeOK, Places, Signals, NEW p \in Procs, User(p) \/ Code(p) \/ Handler(p)
    PROVE  Signals'
  BY OthersSignalled, OwnSignalled DEF Signals

-----------------------------------------------------------------------------
(* A message is put into a buffer once.                                    *)

(* Who has passed a record does not come back to it.                       *)
LEMMA StaysDone ==
    ASSUME TypeOK, Places, NEW p \in Procs, User(p) \/ Code(p) \/ Handler(p),
           NEW q \in Procs, NEW s \in Slots, Done(q, s)
    PROVE  Done(q, s)'
  <1>1. CASE q # p
    BY <1>1, Private DEF Done
  <1>2. CASE q = p
    <2> USE DEF At, Goto
    <2>0. /\ pc \in [Procs -> Locations] /\ i \in [Procs -> 1..MaxSlot + 1] /\ PlaceOf(p)
          /\ msg \in [Procs -> Messages \union {Blank}] /\ Done(p, s) /\ s \in Nat
      BY <1>2 DEF TypeOK, Places, Slots
    <2>1. CASE Connect(p) \/ Scan(p) \/ Claim(p) \/ Return(p) \/ Enter(p)
      <3>1. pc[p] \in Joining \union {"away", "homed"}
        BY <2>1 DEF Connect, Scan, Claim, Return, Enter, Joining
      <3>2. msg[p].kind = "blank" /\ pc[p] # "gone"
        BY <2>0, <3>1, Texts DEF PlaceOf, Joining
      <3> QED
        BY <2>0, <3>2 DEF Done
    <2>2. CASE Yell(p) \/ \E n \in Slots : Tell(p, n)
      BY <2>0, <2>2 DEF Yell, Tell, Quiet, Done
    <2>3. CASE Exit(p)
      BY <1>2, <2>0, <2>3, Texts DEF Exit, Speak, Done
    <2>4. ASSUME NextIndex(p), msg' = msg, pc[p] \in {"check", "kill"} PROVE Done(p, s)'
      <3>1. CASE msg[p].kind = "left"
        BY <2>4, <3>1 DEF Done
      <3>2. CASE msg[p].kind = "said" /\ (i[p] > s \/ (i[p] = s /\ pc[p] = "kill"))
        <4>1. CASE pc'[p] = "check" /\ i'[p] = i[p] + 1
          BY <2>0, <2>4, <3>2, <4>1 DEF Done
        <4>2. CASE pc'[p] = "prompt"
          BY <2>4, <3>2, <4>2 DEF Done
        <4> QED
          BY <2>4, <3>2, <4>1, <4>2, NextPlace
      <3> QED
        BY <2>0, <2>4, <3>1, <3>2 DEF Done
    <2>5. CASE Check(p)
      <3>1. CASE i' = i /\ pc'[p] = "put" /\ msg' = msg /\ pc[p] = "check"
        BY <1>2, <2>0, <3>1 DEF Done
      <3> QED
        BY <1>2, <2>0, <2>4, <2>5, <3>1 DEF Check
    <2>6. CASE Put(p)
      BY <1>2, <2>0, <2>6 DEF Put, Done
    <2>7. CASE Kill(p)
      BY <1>2, <2>4, <2>7 DEF Kill
    <2>8. CASE Release(p)
      <3>1. msg[p].kind = "left" /\ msg' = msg
        BY <2>0, <2>8 DEF Release, PlaceOf
      <3> QED
        BY <1>2, <3>1 DEF Done
    <2>9. CASE Wipe(p)
      BY <1>2, <2>0, <2>9 DEF Wipe, Done
    <2>10. CASE Show(p) \/ Erase(p)
      <3>1. UNCHANGED <<pc, i, msg>>
        BY <2>10 DEF Show, Erase, memory
      <3> QED
        BY <1>2, <2>0, <3>1 DEF Done
    <2> QED
      BY <2>1, <2>2, <2>3, <2>5, <2>6, <2>7, <2>8, <2>9, <2>10 DEF User, Code, Handler
  <1> QED
    BY <1>1, <1>2

(* A message that is put has not been put there before, and is now.        *)
LEMMA PutOnce ==
    ASSUME TypeOK, Places, NEW p \in Procs, Put(p), NEW s, s = i[p],
           NEW q \in Procs, msg[p] = Text("said", q)
    PROVE  s \in Slots /\ ~Done(q, s) /\ Done(q, s)'
  <1>1. /\ pc[p] = "put" /\ pc'[p] = "kill" /\ i' = i /\ msg' = msg /\ PlaceOf(p)
    BY DEF Put, At, Goto, TypeOK, Places
  <1>2. q = p /\ msg[p].kind = "said" /\ s \in Slots
    BY <1>1, Texts DEF PlaceOf, Looping
  <1> QED
    BY <1>1, <1>2, ShmServerAssumption DEF Done, Slots

LEMMA StepOnce ==
    ASSUME TypeOK, Places, Once, NEW p \in Procs, User(p) \/ Code(p) \/ Handler(p)
    PROVE  Once'
  <1>1. ASSUME NEW s \in Slots, NEW q \in Procs, box'[s] = Text("said", q)
        PROVE  Done(q, s)'
    <2>1. CASE box'[s] = box[s]
      BY <1>1, <2>1, StaysDone DEF Once
    <2>2. CASE Put(p) /\ s = i[p] /\ box'[s] = msg[p]
      BY <1>1, <2>2, PutOnce
    <2> QED
      BY <1>1, <2>1, <2>2, Shared, Texts
  <1>2. \A x \in Procs \ {p} : shown'[x] = shown[x] /\ uid'[x] = uid[x] /\ handling'[x] = handling[x]
    BY Private
  <1>3. \/ shown'[p] = {}
        \/ /\ uid'[p] = uid[p]
           /\ \/ shown'[p] = shown[p]
              \/ Show(p) /\ shown'[p] = shown[p] \union {box[uid[p]]}
                 /\ uid[p] \in Slots /\ box[uid[p]].kind = "said"
    <2>1. CASE Return(p)
      <3>1. pc[p] = "claimed" /\ shown' = shown
        BY <2>1 DEF Return, At, signals
      <3> QED
        BY <3>1 DEF Joining, Places, PlaceOf
    <2>2. CASE Wipe(p)
      BY <2>2 DEF Wipe, TypeOK
    <2>3. CASE Show(p)
      BY <2>3 DEF Show, TypeOK, Slots
    <2>4. CASE Connect(p) \/ Scan(p) \/ Claim(p) \/ Enter(p) \/ Yell(p) \/ Exit(p)
                 \/ (\E s \in Slots : Tell(p, s))
      BY <2>4 DEF Connect, Scan, Claim, Enter, Yell, Exit, Tell, Speak, signals
    <2>5. CASE Check(p) \/ Put(p) \/ Kill(p) \/ Release(p) \/ Erase(p)
      BY <2>5 DEF Check, Put, Kill, Release, Erase, signals
    <2> QED
      BY <2>1, <2>2, <2>3, <2>4, <2>5 DEF User, Code, Handler
  <1>4. handling[p] => handling'[p] \/ box'[uid[p]] = Blank
    <2>1. CASE Erase(p)
      BY <2>1 DEF Erase, TypeOK, Places, PlaceOf, Slots
    <2>2. CASE Show(p)
      BY <2>2 DEF Show
    <2>3. CASE User(p) \/ Code(p)
      BY <2>3 DEF User, Code, Connect, Scan, Claim, Return, Enter, Yell, Exit, Tell, Speak,
                  Check, Put, Kill, Release, Wipe, At, signals
    <2> QED
      BY <2>1, <2>2, <2>3 DEF Handler
  <1>5. ASSUME NEW x \in Procs, NEW q \in Procs, Text("said", q) \in shown'[x]
        PROVE  Done(q, uid[x])' /\ (box'[uid'[x]] = Text("said", q) => handling'[x])
    <2>1. CASE Text("said", q) \in shown[x] /\ uid'[x] = uid[x]
      <3>1. uid[x] \in Slots /\ Done(q, uid[x]) /\ (box[uid[x]] = Text("said", q) => handling[x])
        BY <2>1 DEF Once, Places, PlaceOf, TypeOK, Slots
      <3> DEFINE s == uid[x]
      <3>2. \A n \in Slots : n = uid[x] => Done(q, n)'
        BY <3>1, StaysDone
      <3>3. Done(q, uid[x])'
        BY <2>1, <3>1, <3>2
      <3>4. ASSUME box'[uid[x]] = Text("said", q) PROVE handling'[x]
        <4>1. CASE box'[uid[x]] = box[uid[x]]
          BY <1>2, <1>4, <3>1, <3>4, <4>1, Texts
        <4>2. CASE Put(p) /\ uid[x] = i[p] /\ box'[uid[x]] = msg[p]
          BY <3>1, <3>4, <4>2, PutOnce
        <4> QED
          BY <3>1, <3>4, <4>1, <4>2, Shared, Texts
      <3> QED
        BY <2>1, <3>3, <3>4
    <2>2. CASE x = p /\ Show(p) /\ uid'[p] = uid[p] /\ uid[p] \in Slots /\ box[uid[p]] = Text("said", q)
      <3>1. \A n \in Slots : n = uid[p] => Done(q, n)'
        BY <2>2, StaysDone DEF Once
      <3>2. handling'[p]
        BY <2>2 DEF Show, TypeOK, Slots
      <3> QED
        BY <2>2, <3>1, <3>2
    <2> QED
      BY <1>2, <1>3, <1>5, <2>1, <2>2
  <1>6. \A x \in Procs : \A m \in shown'[x] : m.kind = "said"
    BY <1>2, <1>3 DEF Once
  <1> QED
    BY <1>1, <1>5, <1>6 DEF Once

-----------------------------------------------------------------------------
(* The theorems.                                                           *)

LEMMA InitIInv == Init => IInv
  <1> SUFFICES ASSUME Init PROVE IInv
    OBVIOUS
  <1>1. TypeOK
    BY ShmServerAssumption DEF Init, TypeOK, Locations
  <1>2. \A p \in Procs : pc[p] = "away" /\ uid[p] = 0 /\ msg[p] = Blank /\ ~handling[p] /\ shown[p] = {}
    BY DEF Init
  <1>3. Places
    BY <1>2, Texts DEF Places, PlaceOf, Serving, Joining, Looping
  <1>4. Owned
    BY <1>2 DEF Owned, Joining, Serving
  <1>5. Signals
    BY <1>2 DEF Signals, Greeted, Looping
  <1>6. \A s \in Slots : box[s] = Blank
    BY DEF Init
  <1>7. Once
    BY <1>2, <1>6, Texts DEF Once
  <1> QED
    BY <1>1, <1>3, <1>4, <1>5, <1>7 DEF IInv

LEMMA StepIInv == IInv /\ [Next]_vars => IInv'
  <1> SUFFICES ASSUME IInv, [Next]_vars PROVE IInv'
    OBVIOUS
  <1>1. ASSUME NEW p \in Procs, User(p) \/ Code(p) \/ Handler(p) PROVE IInv'
    BY <1>1, StepTypeOK, StepPlaces, StepOwned, StepSignals, StepOnce DEF IInv
  <1>2. CASE UNCHANGED vars
    <2>1. UNCHANGED <<orderly, pc, uid, i, last, msg, pid, box, pending, handling, shown>>
      BY <1>2 DEF vars
    <2>2. TypeOK' /\ Places' /\ Owned'
      BY <2>1 DEF IInv, TypeOK, Places, PlaceOf, Owned
    <2>3. Signals'
      BY <2>1 DEF IInv, Signals, Greeted, SignalFor
    <2>4. Once'
      BY <2>1 DEF IInv, Once, Done
    <2> QED
      BY <2>2, <2>3, <2>4 DEF IInv
  <1> QED
    BY <1>1, <1>2 DEF Next

(* The strengthening that the theorems about the records follow from is an *)
(* invariant.                                                              *)
THEOREM InductiveInvariant == Spec => []IInv
  BY InitIInv, StepIInv, PTL DEF Spec

(* Every process is where the code can be, with indices inside the shared  *)
(* memory, but for the loop variable of client_init when all are taken.    *)
THEOREM TypeCorrect == Spec => []TypeOK
  BY InductiveInvariant, PTL DEF IInv

(* With connections made one at a time, each process owns its record from  *)
(* client_init to clean_cli.                                               *)
THEOREM RecordsOwned == Spec => []OwnRecord
  <1>1. IInv => OwnRecord
    BY DEF IInv, Owned, OwnRecord
  <1> QED
    BY <1>1, InductiveInvariant, PTL

(* A message in the buffer of a user who has come in always has its signal *)
(* on the way, with connections made at any time and without any lock.     *)
THEOREM MessagesSignalled == Spec => []Signalled
  <1>1. IInv => Signalled
    BY DEF IInv, Signals, SignalFor, Greeted, Signalled
  <1> QED
    BY <1>1, InductiveInvariant, PTL

(* A client sees what a user said once, however many signals come.         *)
THEOREM MessagesShownOnce == Spec => ShownOnce
  <1>1. ASSUME IInv, [Next]_vars
        PROVE  [\A p \in Procs :
                   pending[p] /\ ~pending'[p] /\ handling'[p] /\ pc[p] # "homed"
                       => box[uid[p]] \notin shown[p]]_vars
    <2>1. ASSUME NEW p \in Procs, NEW q \in Procs, User(q) \/ Code(q) \/ Handler(q),
                 pending[p], ~pending'[p], handling'[p], box[uid[p]] \in shown[p]
          PROVE  FALSE
      <3>1. q = p
        BY <1>1, <2>1, Shared DEF IInv
      <3>2. CASE Show(p)
        <4>1. uid[p] \in Slots /\ ~handling[p] /\ box[uid[p]] \in Messages /\ box[uid[p]].kind = "said"
          BY <1>1, <2>1, <3>2 DEF Show, IInv, Once, Places, PlaceOf, TypeOK, Slots
        <4>2. box[uid[p]] = Text("said", box[uid[p]].by) /\ box[uid[p]].by \in Procs
          BY <4>1, Texts DEF Messages
        <4> QED
          BY <1>1, <2>1, <4>1, <4>2 DEF IInv, Once
      <3>3. CASE Wipe(p)
        BY <1>1, <2>1, <3>3 DEF Wipe, At
      <3>4. CASE User(p) \/ Scan(p) \/ Claim(p) \/ Return(p) \/ Enter(p) \/ Check(p) \/ Put(p)
                    \/ Release(p) \/ Erase(p)
        BY <2>1, <3>4 DEF User, Connect, Scan, Claim, Return, Enter, Yell, Exit, Tell, Speak,
                          Check, Put, Release, Erase, signals
      <3>5. CASE Kill(p)
        BY <1>1, <2>1, <3>5 DEF Kill, IInv, TypeOK
      <3> QED
        BY <2>1, <3>1, <3>2, <3>3, <3>4, <3>5 DEF Code, Handler
    <2> QED
      BY <1>1, <2>1 DEF Next
  <1> QED
    BY <1>1, InductiveInvariant, PTL DEF Spec, ShownOnce
=============================================================================
