--------------------------- MODULE ShmPipesProofs ---------------------------
(***************************************************************************)
(* Proofs about ShmPipes: pipes between users whose shells share records,  *)
(* a directory of FIFOs and a signal, for any number of processes, records *)
(* and FIFOs.                                                              *)
(*                                                                         *)
(* The invariant is in three layers.  TypeOK and Shape hold of whatever    *)
(* users do.  Kept relates records, directory and descriptors; it holds    *)
(* while users are polite and no signal falls into the window between a    *)
(* record that has forgotten a FIFO and its removal, until a record is     *)
(* taken before it is clean (Apart says neither has come to pass), and     *)
(* until a sender dies in open, which leaves its record to nobody.         *)
(* Awaited says what is known of a line that pipes to a user or takes a    *)
(* pipe when users wait for announcements as well; then nobody dies.       *)
(***************************************************************************)
EXTENDS ShmPipes, WellFoundedInduction, TLAPS

Leaving == {"drop", "remove"}
Staying == Living \ Leaving
Sending == {"symbol", "mknod", "kill", "open", "blocked", "read", "write"}
Working == Sending \union {"forget", "unlink"}

(* What the symbols of a line say, and for whom a FIFO in the directory is.*)
Said(l)   == {l.last, l.sym}
For(a, b) == pipe[name[a][b]].for
By(a, b)  == pipe[name[a][b]].by

Alive == \A p \in Procs : pc[p] # "dead"

Fits(p) ==
    /\ pc[p] # "away" => uid[p] \in Slots
    /\ pc[p] \notin Living => ~pending[p] /\ hand[p] = 0
    /\ pc[p] \notin Working => job[p] = Idle
    /\ pc[p] \in {"mknod", "kill"} => Symbol(p).dir = "to"
    /\ pc[p] \in {"open", "blocked"} => job[p].out # 0
    /\ pc[p] \in {"forget", "unlink"} => job[p].in # 0
    /\ pc[p] \notin Leaving \union {"gone"} => at[p] = 1
    /\ pc[p] = "remove" => at[p] <= MaxSlot
    /\ job[p].out # 0 => To(job[p].out) \in Said(job[p].line)
    /\ job[p].out = 0 => job[p].end = 0
    /\ job[p].in = 0 => job[p].input = NoFd
    /\ job[p].in # 0 => From(job[p].in) \in Said(job[p].line)

Shape == \A p \in Procs : Fits(p)

(* A record is that of the process that says so, until it leaves; no two   *)
(* processes that live have one uid.                                       *)
Owned ==
    /\ \A p \in Procs : pc[p] \in Staying => user[uid[p]] = p
    /\ \A p \in Procs : pc[p] \in Leaving => user[uid[p]] = NoProc
    /\ \A s \in Slots : user[s] # NoProc => uid[user[s]] = s /\ pc[user[s]] \in Staying
    /\ \A p, q \in Procs :
          pc[p] \in Living /\ pc[q] \in Living /\ uid[p] = uid[q] => p = q

(* No signal is on its way where the record and the directory disagree.    *)
Calm == \A p \in Procs : pc[p] \in Leaving \union {"unlink"} => ~pending[p] /\ hand[p] = 0

(* The users whom lines pipe to are there.                                 *)
Reached ==
    \A p \in Procs :
        /\ pc[p] \in {"mknod", "kill"} => user[Symbol(p).slot] # NoProc
        /\ job[p].out # 0 => user[job[p].out] # NoProc

(* The descriptor a line takes is that of its record until it is forgotten.*)
Taking ==
    \A p \in Procs : job[p].in # 0 =>
        LET a == job[p].in
        IN  /\ pc[p] # "unlink" => fifofd[uid[p]][a] = job[p].input /\ job[p].input # NoFd
            /\ pc[p] = "unlink" => fifofd[uid[p]][a] = NoFd
            /\ pc[p] = "forget" => p \notin reads[name[a][uid[p]]]

(* A FIFO that its receiver's record does not know is about to be known or *)
(* about to go: its maker has not sent the signal yet, or the signal or    *)
(* the handler is under way, or its receiver is removing it.               *)
Due(a, b) ==
    LET p == By(a, b)
        q == For(a, b)
    IN  \/ pc[p] = "kill" /\ uid[p] = a /\ Symbol(p) = To(b)
        \/ pending[q]
        \/ hand[q] \in 1..a
        \/ pc[q] = "unlink" /\ job[q].in = a
        \/ pc[q] = "remove" /\ at[q] = a

Named ==
    \A a, b \in Slots : name[a][b] # 0 =>
        /\ By(a, b) \in Procs
        /\ For(a, b) \in Procs /\ pc[For(a, b)] \in Living /\ uid[For(a, b)] = b
        /\ \A q \in reads[name[a][b]] : q = For(a, b) /\ fifofd[b][a] # NoFd
        /\ fifofd[b][a] = NoFd => Due(a, b)

Distinct ==
    \A a, b, c, d \in Slots : name[a][b] # 0 /\ name[a][b] = name[c][d] => a = c /\ b = d

Recorded ==
    \A a, b \in Slots : fifofd[b][a] # NoFd =>
        /\ name[a][b] # 0
        /\ fifofd[b][a] = Fd(For(a, b), name[a][b])
        /\ \/ For(a, b) \in reads[name[a][b]]
           \/ pc[For(a, b)] = "forget" /\ job[For(a, b)].in = a

Fresh == \A f \in Fifos : pipe[f].by = NoProc => reads[f] = {}

(* How far a process that leaves has come through its record.              *)
Cleared ==
    \A p \in Procs : pc[p] \in Leaving =>
        /\ \A a \in Slots : a < at[p] => name[a][uid[p]] = 0
        /\ pc[p] = "remove" => fifofd[uid[p]][at[p]] = NoFd

Kept == Owned /\ Calm /\ Reached /\ Taking /\ Named /\ Distinct /\ Recorded /\ Fresh /\ Cleared

(* The FIFO of a line that pipes to a user is there, and not announced.    *)
Unannounced ==
    \A p \in Procs, b \in Slots :
        pc[p] \in Sending /\ (job[p].out = b \/ (pc[p] = "kill" /\ Symbol(p) = To(b)))
            => name[uid[p]][b] # 0 /\ ~pipe[name[uid[p]][b]].told

(* What a line takes is there, and announced.                              *)
Offered ==
    \A p \in Procs, a \in Slots :
        From(a) \in Said(job[p].line) => name[a][uid[p]] # 0 /\ pipe[name[a][uid[p]]].told

(* Who waits in open waits for a FIFO that nobody has open yet, and who    *)
(* has gone on writes to one that the receiver's record knows.             *)
Opened ==
    \A p \in Procs : pc[p] \in {"blocked", "read", "write"} /\ job[p].out # 0 =>
        /\ job[p].end = name[uid[p]][job[p].out]
        /\ (pc[p] = "blocked") <=> (fifofd[job[p].out][uid[p]] = NoFd)

(* An announced FIFO is full until the command that takes it has read it.  *)
Whole ==
    \A a, b \in Slots : name[a][b] # 0 /\ pipe[name[a][b]].told =>
        \/ pipe[name[a][b]].state = "full"
        \/ pc[For(a, b)] \in {"write", "forget", "unlink"} /\ job[For(a, b)].in = a

Awaited == Alive /\ Unannounced /\ Offered /\ Opened /\ Whole

IInv ==
    /\ TypeOK /\ Shape
    /\ Polite /\ Apart /\ Alive => Kept
    /\ Patient /\ Polite /\ Apart => Awaited

-----------------------------------------------------------------------------
(* Symbols, lines and jobs.                                                *)

(* What the symbols are.                                                   *)
LEMMA SymbolForms ==
    ASSUME NEW s \in Symbols
    PROVE  /\ s.slot \in 0..MaxSlot
           /\ s.dir \in {"none", "to", "from"}
           /\ s.dir = "none" => s = None
           /\ s.dir = "to" => s.slot \in Slots /\ s = To(s.slot)
           /\ s.dir = "from" => s.slot \in Slots /\ s = From(s.slot)
<1>1. MaxSlot \in Nat
  BY ShmPipesAssumption
<1>2. CASE s = None
  BY <1>1, <1>2 DEF None
<1>3. CASE \E a \in Slots : s = To(a)
  <2>1. PICK a \in Slots : s = To(a)
    BY <1>3
  <2> QED
    BY <1>1, <2>1 DEF To, Slots
<1>4. CASE \E a \in Slots : s = From(a)
  <2>1. PICK a \in Slots : s = From(a)
    BY <1>4
  <2> QED
    BY <1>1, <2>1 DEF From, Slots
<1> QED
  BY <1>2, <1>3, <1>4 DEF Symbols

(* Symbols with different meanings are different.                          *)
LEMMA SymbolsDiffer ==
    /\ \A a, b : To(a) = To(b) => a = b
    /\ \A a, b : From(a) = From(b) => a = b
    /\ \A a, b : To(a) # From(b)
    /\ \A a : None # To(a) /\ None # From(a)
    /\ \A a : To(a).dir = "to" /\ To(a).slot = a
    /\ \A a : From(a).dir = "from" /\ From(a).slot = a
    /\ None.dir = "none"
  BY DEF To, From, None

(* What a job is made of.                                                  *)
LEMMA JobParts ==
    ASSUME NEW j \in Jobs
    PROVE  /\ j.line \in AllLines /\ j.stage \in {"last", "sym"}
           /\ j.out \in 0..MaxSlot /\ j.end \in 0..MaxMade
           /\ j.in \in 0..MaxSlot /\ j.input \in Fds
           /\ j.line.last \in Symbols /\ j.line.sym \in Symbols
  BY DEF Jobs, AllLines

(* The job of a line that has just been typed.                             *)
LEMMA WorkParts ==
    ASSUME NEW l \in AllLines
    PROVE  /\ Work(l) \in Jobs
           /\ Work(l).line = l /\ Work(l).out = 0 /\ Work(l).end = 0
           /\ Work(l).in = 0 /\ Work(l).input = NoFd
  BY ShmPipesAssumption DEF Work, Jobs, Fds

(* The job of a process that has none.                                     *)
LEMMA IdleParts ==
    /\ Idle \in Jobs
    /\ Idle.out = 0 /\ Idle.end = 0 /\ Idle.in = 0 /\ Idle.input = NoFd
    /\ Said(Idle.line) = {None}
<1> DEFINE l == [last |-> None, sym |-> None]
<1>1. l \in AllLines /\ Said(l) = {None}
  BY DEF AllLines, Symbols, Said
<1> HIDE DEF l
<1>2. Idle = Work(l)
  BY DEF Idle, l
<1> QED
  BY <1>1, <1>2, WorkParts

(* The parts of a job that are assigned one by one.                        *)
LEMMA JobStage ==
    ASSUME NEW j \in Jobs
    PROVE  LET k == [j EXCEPT !.stage = "sym"]
           IN  /\ k \in Jobs /\ k.line = j.line /\ k.stage = "sym" /\ k.out = j.out
               /\ k.end = j.end /\ k.in = j.in /\ k.input = j.input
  BY DEF Jobs

LEMMA JobOut ==
    ASSUME NEW j \in Jobs, NEW b \in Slots
    PROVE  LET k == [j EXCEPT !.out = b]
           IN  /\ k \in Jobs /\ k.line = j.line /\ k.stage = j.stage /\ k.out = b
               /\ k.end = j.end /\ k.in = j.in /\ k.input = j.input
<1>1. b \in 0..MaxSlot
  BY ShmPipesAssumption DEF Slots
<1> QED
  BY <1>1 DEF Jobs

LEMMA JobEnd ==
    ASSUME NEW j \in Jobs, NEW f \in Fifos
    PROVE  LET k == [j EXCEPT !.end = f]
           IN  /\ k \in Jobs /\ k.line = j.line /\ k.stage = j.stage /\ k.out = j.out
               /\ k.end = f /\ k.in = j.in /\ k.input = j.input
<1>1. f \in 0..MaxMade
  BY ShmPipesAssumption DEF Fifos
<1> QED
  BY <1>1 DEF Jobs

LEMMA JobLost ==
    ASSUME NEW j \in Jobs
    PROVE  LET k == [j EXCEPT !.end = 0, !.input = NoFd]
           IN  /\ k \in Jobs /\ k.line = j.line /\ k.stage = j.stage /\ k.out = j.out
               /\ k.end = 0 /\ k.in = j.in /\ k.input = NoFd
<1>1. 0 \in 0..MaxMade /\ NoFd \in Fds
  BY ShmPipesAssumption DEF Fds
<1> QED
  BY <1>1 DEF Jobs

LEMMA JobIn ==
    ASSUME NEW j \in Jobs, NEW a \in Slots, NEW fd \in Fds
    PROVE  LET k == [j EXCEPT !.in = a, !.input = fd]
           IN  /\ k \in Jobs /\ k.line = j.line /\ k.stage = j.stage /\ k.out = j.out
               /\ k.end = j.end /\ k.in = a /\ k.input = fd
<1>1. a \in 0..MaxSlot
  BY ShmPipesAssumption DEF Slots
<1> QED
  BY <1>1 DEF Jobs

(* The symbol that is looked at is one of those of the line.               *)
LEMMA SymbolSaid ==
    ASSUME TypeOK, NEW p \in Procs
    PROVE  Symbol(p) \in Symbols /\ Symbol(p) \in Said(job[p].line)
<1>1. job[p] \in Jobs
  BY DEF TypeOK
<1> QED
  BY <1>1, JobParts DEF Symbol, Said

(* A set of numbers that has a member has a least one.                     *)
LEMMA LeastOf ==
    ASSUME NEW S \in SUBSET Nat, S # {}
    PROVE  \E g \in S : \A h \in S : g <= h
<1> DEFINE R == OpToRel(<, Nat)
<1>1. \A x, y \in Nat : <<x, y>> \in R <=> x < y
  BY DEF OpToRel
<1>2. IsWellFoundedOn(R, Nat)
  BY NatLessThanWellFounded
<1> HIDE DEF R
<1>3. PICK x \in S : \A y \in S : ~(<<y, x>> \in R)
  BY <1>2, WFMin
<1>4. \A y \in S : x <= y
  <2>1. TAKE y \in S
  <2>2. x \in Nat /\ y \in Nat
    OBVIOUS
  <2>3. ~(y < x)
    BY <1>1, <1>3, <2>2
  <2> QED
    BY <2>2, <2>3
<1> QED
  BY <1>4

-----------------------------------------------------------------------------
(* What steps do, process by process.                                      *)

(* A line goes on to its next symbol, to its command, or is given up.      *)
LEMMA AdvanceEffect ==
    ASSUME TypeOK, NEW p \in Procs, NEW ok \in BOOLEAN, NEW js \in [Procs -> Jobs],
           Advance(p, ok, js)
    PROVE  /\ pc' \in [Procs -> Locations] /\ job' \in [Procs -> Jobs]
           /\ \A q \in Procs : q # p => pc'[q] = pc[q] /\ job'[q] = js[q]
           /\ pc'[p] \in {"symbol", "prompt", "clean", "open", "read"}
           /\ pc'[p] \in {"prompt", "clean"} => job'[p] = Idle
           /\ pc'[p] \notin {"prompt", "clean"} =>
                 /\ job'[p].line = js[p].line /\ job'[p].out = js[p].out
                 /\ job'[p].end = js[p].end /\ job'[p].in = js[p].in
                 /\ job'[p].input = js[p].input
           /\ pc'[p] = "open" => js[p].out # 0
           /\ pc'[p] = "read" => js[p].out = 0
<1> DEFINE j == js[p]
           next == CASE j.stage = "last" /\ ok  -> "symbol"
                     [] j.stage = "last" /\ ~ok -> "prompt"
                     [] j.stage = "sym" /\ Illegal(j.line, ok) -> "clean"
                     [] j.stage = "sym" /\ ~Illegal(j.line, ok) ->
                           IF j.out # 0 THEN "open" ELSE "read"
           k == IF next \in {"prompt", "clean"} THEN Idle ELSE [j EXCEPT !.stage = "sym"]
<1>1. pc' = [pc EXCEPT ![p] = next] /\ job' = [js EXCEPT ![p] = k]
  BY DEF Advance, Goto
<1>2. j \in Jobs /\ j.stage \in {"last", "sym"}
  BY JobParts
<1>3. /\ next \in {"symbol", "prompt", "clean", "open", "read"}
      /\ next = "open" => j.out # 0
      /\ next = "read" => j.out = 0
  <2>1. CASE j.stage = "last"
    <3>1. CASE ok
      BY <2>1, <3>1
    <3>2. CASE ~ok
      BY <2>1, <3>2
    <3> QED
      BY <3>1, <3>2
  <2>2. CASE j.stage = "sym"
    <3>1. CASE Illegal(j.line, ok)
      BY <2>2, <3>1
    <3>2. CASE ~Illegal(j.line, ok)
      BY <2>2, <3>2
    <3> QED
      BY <3>1, <3>2
  <2> QED
    BY <1>2, <2>1, <2>2
<1> HIDE DEF next
<1>4. /\ k \in Jobs
      /\ next \in {"prompt", "clean"} => k = Idle
      /\ next \notin {"prompt", "clean"} =>
            /\ k.line = j.line /\ k.out = j.out /\ k.end = j.end
            /\ k.in = j.in /\ k.input = j.input
  BY <1>2, IdleParts, JobStage
<1> HIDE DEF k
<1>5. pc' \in [Procs -> Locations] /\ job' \in [Procs -> Jobs]
  BY <1>1, <1>3, <1>4 DEF TypeOK, Locations
<1>6. pc'[p] = next /\ job'[p] = k
  BY <1>1 DEF TypeOK
<1>7. \A q \in Procs : q # p => pc'[q] = pc[q] /\ job'[q] = js[q]
  BY <1>1 DEF TypeOK
<1> QED
  BY <1>3, <1>4, <1>5, <1>6, <1>7

(* The places of a process where nothing is under way between its record   *)
(* and the directory, or between its line and a signal it owes.            *)
Calmly == Staying \ {"kill", "forget", "unlink"}

LEMMA Places ==
    /\ \A l \in Calmly : l \in Staying /\ l \notin {"kill", "forget", "unlink"}
    /\ \A l \in Staying : l \in Living /\ l \notin Leaving
    /\ \A l \in Leaving : l \in Living
    /\ \A l \in Living : l \in Locations /\ l \notin {"away", "gone", "dead"}
    /\ \A l \in Sending : l \in Working
    /\ \A l \in Working : l \in Staying /\ l \notin {"prompt", "clean"}
    /\ {"prompt", "clean"} \subseteq Calmly
  BY DEF Calmly, Staying, Living, Locations, Working, Sending, Leaving

LEMMA OwnedFrame ==
    ASSUME TypeOK, Owned, uid' = uid, user' = user,
           \A q \in Procs : /\ (pc'[q] \in Staying) = (pc[q] \in Staying)
                            /\ (pc'[q] \in Leaving) = (pc[q] \in Leaving)
                            /\ (pc'[q] \in Living) = (pc[q] \in Living)
    PROVE  Owned'
<1>1. \A s \in Slots : user[s] # NoProc => user[s] \in Procs
  BY DEF TypeOK
<1> QED
  BY <1>1 DEF Owned

(* A step that leaves records, directory, descriptors and signals alone    *)
(* and moves one process between calm places keeps Kept.                   *)
LEMMA QuietKept ==
    ASSUME TypeOK, Shape, Kept, TypeOK', Shape', NEW p \in Procs,
           UNCHANGED <<uid, at, user, fifofd, name, reads, pending, hand>>,
           \A f \in Fifos : pipe'[f].by = pipe[f].by /\ pipe'[f].for = pipe[f].for,
           \A q \in Procs : q # p => pc'[q] = pc[q] /\ job'[q] = job[q],
           pc[p] \in Calmly, pc'[p] \in Calmly,
           pc'[p] = "mknod" => user[Symbol(p)'.slot] # NoProc,
           job'[p].out # 0 => user[job'[p].out] # NoProc,
           job'[p].in # 0 => /\ fifofd[uid[p]][job'[p].in] = job'[p].input
                             /\ job'[p].input # NoFd
    PROVE  Kept'
<1>1. \A q \in Procs : q # p => Symbol(q)' = Symbol(q)
  BY DEF Symbol
<1>2. \A a, b \in Slots : name[a][b] # 0 => For(a, b)' = For(a, b) /\ By(a, b)' = By(a, b)
  BY DEF For, By, TypeOK, Fifos
<1>3. Owned'
  <2>1. \A q \in Procs : /\ (pc'[q] \in Staying) = (pc[q] \in Staying)
                          /\ (pc'[q] \in Leaving) = (pc[q] \in Leaving)
                          /\ (pc'[q] \in Living) = (pc[q] \in Living)
    BY DEF Calmly, Staying, Living, Leaving, Locations
  <2> QED
    BY <2>1, OwnedFrame DEF Kept
<1>4. Calm'
  BY DEF Kept, Calm, Calmly, Staying, Living, Leaving
<1>5. Reached'
  BY <1>1 DEF Kept, Reached, Calmly
<1>6. Taking'
  BY DEF Kept, Taking, Calmly
<1>7. ASSUME NEW a \in Slots, NEW b \in Slots, name[a][b] # 0, Due(a, b), By(a, b) \in Procs,
             For(a, b) \in Procs
      PROVE  Due(a, b)'
  BY <1>1, <1>2, <1>7 DEF Due, Calmly, Staying, Leaving
<1>8. Named'
  BY <1>2, <1>7 DEF Kept, Named, Calmly, Staying, Living, Leaving, Locations
<1>9. Distinct' /\ Fresh' /\ Cleared'
  BY DEF Kept, Distinct, Fresh, Cleared, Calmly, Staying, Leaving
<1>10. Recorded'
  BY <1>2 DEF Kept, Recorded, Named, Calmly
<1> QED
  BY <1>3, <1>4, <1>5, <1>6, <1>8, <1>9, <1>10 DEF Kept

(* If the pipes stay what they are too, it keeps Awaited.                  *)
LEMMA QuietAwaited ==
    ASSUME TypeOK, Kept, Awaited, NEW p \in Procs,
           UNCHANGED <<uid, fifofd, name, pipe>>,
           \A q \in Procs : q # p => pc'[q] = pc[q] /\ job'[q] = job[q],
           pc[p] # "write", pc'[p] \in Calmly, pc[p] \in Calmly,
           job'[p].out # 0 => pc[p] \in Sending /\ job'[p].out = job[p].out,
           \A a \in Slots : From(a) \in Said(job'[p].line) =>
              name[a][uid[p]] # 0 /\ pipe[name[a][uid[p]]].told,
           pc'[p] \in {"blocked", "read", "write"} /\ job'[p].out # 0 =>
              /\ job'[p].end = name[uid[p]][job'[p].out]
              /\ (pc'[p] = "blocked") <=> (fifofd[job'[p].out][uid[p]] = NoFd)
    PROVE  Awaited'
<1>1. \A q \in Procs : q # p => Symbol(q)' = Symbol(q)
  BY DEF Symbol
<1>2. \A a, b \in Slots : For(a, b)' = For(a, b)
  BY DEF For
<1>3. Alive'
  BY DEF Awaited, Alive, Calmly, Staying, Living, Locations
<1>4. Unannounced'
  <2>1. \A b \in Slots : b # 0
    BY ShmPipesAssumption DEF Slots
  <2> QED
    BY <1>1, <2>1 DEF Awaited, Unannounced, Calmly
<1>5. Offered'
  BY DEF Awaited, Offered
<1>6. Opened'
  BY DEF Awaited, Opened
<1>7. Whole'
  BY <1>2 DEF Awaited, Whole, Calmly, Kept, Named
<1> QED
  BY <1>3, <1>4, <1>5, <1>6, <1>7 DEF Awaited

(* What a step keeps, layer by layer, it keeps.                            *)
LEMMA Layers ==
    ASSUME IInv, manners' = manners, early' = {} => early = {}, TypeOK', Shape', Alive' => Alive,
           Polite /\ Apart /\ Apart' /\ Kept /\ Alive /\ Alive' => Kept',
           Patient /\ Polite /\ Apart /\ Apart' /\ Kept /\ Awaited => Awaited'
    PROVE  IInv'
<1>1. Polite' = Polite /\ Patient' = Patient /\ (Apart' => Apart)
  BY DEF Polite, Apart, Patient
<1>2. Awaited => Alive
  BY DEF Awaited
<1> QED
  BY <1>1, <1>2 DEF IInv

(* A process that a step leaves alone keeps its shape.                     *)
LEMMA FitsFrame ==
    ASSUME NEW q \in Procs, Fits(q), pc'[q] = pc[q], uid'[q] = uid[q], at'[q] = at[q],
           job'[q] = job[q], pending'[q] = pending[q], hand'[q] = hand[q]
    PROVE  Fits(q)'
  BY DEF Fits, Symbol

(* A process that stays loses no more than the step says.                  *)
LEMMA StaysAlive ==
    ASSUME NEW p \in Procs, \A q \in Procs : q # p => pc'[q] = pc[q], pc[p] # "dead"
    PROVE  Alive' => Alive
  BY DEF Alive

(* A symbol that is dealt with by looking at it.                           *)
LEMMA AdvanceStep ==
    ASSUME IInv, NEW p \in Procs, NEW ok \in BOOLEAN, NEW js \in [Procs -> Jobs],
           Advance(p, ok, js), pc[p] \in {"symbol", "mknod"},
           \A q \in Procs : q # p => js[q] = job[q],
           js[p].line = job[p].line, js[p].out = job[p].out, js[p].end = job[p].end,
           \/ js[p].in = job[p].in /\ js[p].input = job[p].input
           \/ /\ js[p].in # 0 /\ From(js[p].in) \in Said(job[p].line)
              /\ js[p].input # NoFd /\ js[p].input = fifofd[uid[p]][js[p].in],
           UNCHANGED <<manners, early, uid, at, records, files, signals, lines>>
    PROVE  IInv'
<1>1. TypeOK /\ Shape
  BY DEF IInv
<1>2. /\ UNCHANGED <<uid, at, user, fifofd, name, pipe, reads, pending, hand, lines>>
      /\ manners' = manners /\ early' = early
  BY DEF records, files, signals
<1>3. /\ pc' \in [Procs -> Locations] /\ job' \in [Procs -> Jobs]
      /\ \A q \in Procs : q # p => pc'[q] = pc[q] /\ job'[q] = job[q]
      /\ pc'[p] \in {"symbol", "prompt", "clean", "open", "read"}
      /\ pc'[p] \in {"prompt", "clean"} => job'[p] = Idle
      /\ pc'[p] \notin {"prompt", "clean"} =>
            /\ job'[p].line = job[p].line /\ job'[p].out = job[p].out
            /\ job'[p].end = job[p].end
            /\ job'[p].in = js[p].in /\ job'[p].input = js[p].input
      /\ pc'[p] = "open" => job[p].out # 0
      /\ pc'[p] = "read" => job[p].out = 0
  BY <1>1, AdvanceEffect
<1>4. TypeOK'
  BY <1>1, <1>2, <1>3 DEF TypeOK
<1>5. Fits(p)'
  <2>1. Fits(p)
    BY <1>1 DEF Shape
  <2>2. CASE pc'[p] \in {"prompt", "clean"}
    BY <1>2, <1>3, <2>1, <2>2, IdleParts DEF Fits, Living, Locations, Leaving, Working, Sending
  <2>3. CASE pc'[p] \in {"symbol", "open", "read"}
    BY <1>2, <1>3, <2>1, <2>3 DEF Fits, Living, Locations, Leaving, Working, Sending
  <2> QED
    BY <1>3, <2>2, <2>3
<1>6. Shape'
  BY <1>1, <1>2, <1>3, <1>5, FitsFrame DEF Shape
<1>7. pc[p] \in Calmly /\ pc'[p] \in Calmly /\ pc[p] # "write" /\ pc[p] \in Sending
  BY <1>3 DEF Calmly, Staying, Living, Locations, Leaving, Sending
<1>8. ASSUME Kept PROVE Kept'
  <2>1. job'[p].out # 0 => user[job'[p].out] # NoProc
    BY <1>3, <1>8, IdleParts DEF Kept, Reached
  <2>2. job'[p].in # 0 => /\ fifofd[uid[p]][job'[p].in] = job'[p].input
                          /\ job'[p].input # NoFd
    BY <1>3, <1>8, IdleParts DEF Kept, Taking
  <2> QED
    BY <1>1, <1>2, <1>3, <1>4, <1>6, <1>7, <1>8, <2>1, <2>2, QuietKept
<1>9. ASSUME Kept, Awaited PROVE Awaited'
  <2>1. job'[p].out # 0 => job'[p].out = job[p].out
    BY <1>3, IdleParts
  <2>2. \A a \in Slots : From(a) \in Said(job'[p].line) =>
            name[a][uid[p]] # 0 /\ pipe[name[a][uid[p]]].told
    <3>1. CASE pc'[p] \in {"prompt", "clean"}
      BY <1>3, <3>1, IdleParts, SymbolsDiffer
    <3>2. CASE pc'[p] \notin {"prompt", "clean"}
      <4>1. job'[p].line = job[p].line
        BY <1>3, <3>2
      <4> QED
        BY <1>9, <4>1 DEF Awaited, Offered
    <3> QED
      BY <3>1, <3>2
  <2>3. ~(pc'[p] \in {"blocked", "read", "write"} /\ job'[p].out # 0)
    BY <1>3
  <2> QED
    BY <1>1, <1>2, <1>3, <1>7, <1>9, <2>1, <2>2, <2>3, QuietAwaited
<1>10. Alive' => Alive
  BY <1>3, StaysAlive
<1> QED
  BY <1>1, <1>2, <1>4, <1>6, <1>8, <1>9, <1>10, Layers

(* A step of one process, between calm places, that changes its job only.  *)
LEMMA QuietStep ==
    ASSUME IInv, NEW p \in Procs, NEW l \in Locations, NEW j \in Jobs,
           pc' = [pc EXCEPT ![p] = l], job' = [job EXCEPT ![p] = j],
           UNCHANGED <<manners, early, uid, at, records, files, signals>>, lines' \in 0..MaxLines,
           pc[p] \in Calmly, l \in Calmly, pc[p] # "write", Fits(p)',
           Polite /\ Apart /\ Kept =>
              /\ l = "mknod" => user[Symbol(p)'.slot] # NoProc
              /\ j.out # 0 => user[j.out] # NoProc
              /\ j.in # 0 => fifofd[uid[p]][j.in] = j.input /\ j.input # NoFd,
           Patient /\ Polite /\ Apart /\ Kept /\ Awaited =>
              /\ j.out # 0 => pc[p] \in Sending /\ j.out = job[p].out
              /\ \A a \in Slots : From(a) \in Said(j.line) =>
                    name[a][uid[p]] # 0 /\ pipe[name[a][uid[p]]].told
              /\ l \in {"blocked", "read", "write"} /\ j.out # 0 =>
                    /\ j.end = name[uid[p]][j.out]
                    /\ (l = "blocked") <=> (fifofd[j.out][uid[p]] = NoFd)
    PROVE  IInv'
<1>1. TypeOK /\ Shape
  BY DEF IInv
<1>2. /\ UNCHANGED <<uid, at, user, fifofd, name, pipe, reads, pending, hand>>
      /\ manners' = manners /\ early' = early
  BY DEF records, files, signals
<1>3. /\ pc' \in [Procs -> Locations] /\ job' \in [Procs -> Jobs]
      /\ pc'[p] = l /\ job'[p] = j
      /\ \A q \in Procs : q # p => pc'[q] = pc[q] /\ job'[q] = job[q]
  BY <1>1 DEF TypeOK
<1>4. TypeOK'
  BY <1>1, <1>2, <1>3 DEF TypeOK
<1>5. Shape'
  BY <1>1, <1>2, <1>3, FitsFrame DEF Shape
<1>6. ASSUME Polite, Apart, Kept PROVE Kept'
  BY <1>1, <1>2, <1>3, <1>4, <1>5, <1>6, QuietKept
<1>7. ASSUME Patient, Polite, Apart, Kept, Awaited PROVE Awaited'
  BY <1>1, <1>2, <1>3, <1>7, QuietAwaited
<1>8. pc[p] # "dead"
  BY DEF Calmly, Staying, Living
<1>9. Alive' => Alive
  BY <1>3, <1>8, StaysAlive
<1> QED
  BY <1>1, <1>2, <1>4, <1>5, <1>6, <1>7, <1>9, Layers

-----------------------------------------------------------------------------
(* The steps that only go on with a line.                                  *)

(* A line is typed, under the announcements that patient users wait for.   *)
LEMMA TypeLineStep ==
    ASSUME IInv, NEW p \in Procs, NEW l \in Lines, TypeLine(p, l)
    PROVE  IInv'
<1>1. TypeOK /\ Shape /\ Fits(p)
  BY DEF IInv, Shape
<1>2. l \in AllLines
  BY ShmPipesAssumption
<1> DEFINE j == Work(l)
<1>3. /\ pc' = [pc EXCEPT ![p] = "symbol"] /\ job' = [job EXCEPT ![p] = j]
      /\ UNCHANGED <<manners, early, uid, at, records, files, signals>>
      /\ pc[p] = "prompt" /\ lines < MaxLines /\ lines' = lines + 1
      /\ Patient => Announced(p, l)
  BY DEF TypeLine, At, Goto, Patient
<1>4. lines' \in 0..MaxLines
  BY <1>1, <1>3, ShmPipesAssumption DEF TypeOK
<1>5. /\ j \in Jobs /\ j.line = l /\ j.out = 0 /\ j.end = 0 /\ j.in = 0
      /\ j.input = NoFd
  BY <1>2, WorkParts
<1>6. /\ "prompt" \in Calmly /\ "symbol" \in Calmly /\ "symbol" \in Locations
      /\ "prompt" \notin Working
  BY DEF Calmly, Staying, Living, Locations, Leaving, Working, Sending
<1> HIDE DEF j
<1>7. /\ pc'[p] = "symbol" /\ job'[p] = j
      /\ uid' = uid /\ pending' = pending /\ hand' = hand /\ at' = at
  BY <1>1, <1>3 DEF TypeOK, signals
<1>8. Fits(p)'
  BY <1>1, <1>3, <1>5, <1>7 DEF Fits, Living, Locations, Leaving, Working, Sending
<1>9. ASSUME Patient, NEW a \in Slots, From(a) \in Said(l)
      PROVE  name[a][uid[p]] # 0 /\ pipe[name[a][uid[p]]].told
  BY <1>3, <1>9 DEF Announced, Said
<1> QED
  BY <1>3, <1>4, <1>5, <1>6, <1>8, <1>9, QuietStep

(* The user logs out.                                                      *)
LEMMA ExitStep ==
    ASSUME IInv, NEW p \in Procs, Exit(p)
    PROVE  IInv'
<1>1. TypeOK /\ Shape /\ Fits(p)
  BY DEF IInv, Shape
<1>2. /\ pc' = [pc EXCEPT ![p] = "clean"] /\ pc[p] = "prompt" /\ job' = job
      /\ UNCHANGED <<manners, early, uid, at, records, files, signals>> /\ lines' = lines
  BY DEF Exit, At, Goto
<1>3. job[p] = Idle
  BY <1>1, <1>2 DEF Fits, Working, Sending
<1>4. job' = [job EXCEPT ![p] = Idle] /\ job'[p] = Idle
  BY <1>1, <1>2, <1>3 DEF TypeOK
<1>5. lines' \in 0..MaxLines
  BY <1>1, <1>2 DEF TypeOK
<1>6. /\ "prompt" \in Calmly /\ "clean" \in Calmly /\ "clean" \in Locations
  BY DEF Calmly, Staying, Living, Locations, Leaving
<1>7. /\ pc'[p] = "clean"
      /\ uid' = uid /\ pending' = pending /\ hand' = hand /\ at' = at
  BY <1>1, <1>2 DEF TypeOK, signals
<1>8. Fits(p)'
  BY <1>1, <1>2, <1>4, <1>7, IdleParts DEF Fits, Living, Locations, Leaving, Working, Sending
<1> QED
  BY <1>2, <1>4, <1>5, <1>6, <1>8, IdleParts, SymbolsDiffer, QuietStep

(* A message interrupts an open that waits, which begins again.            *)
LEMMA MessageStep ==
    ASSUME IInv, NEW p \in Procs, Message(p)
    PROVE  IInv'
<1>1. TypeOK /\ Shape /\ Fits(p)
  BY DEF IInv, Shape
<1>2. /\ pc' = [pc EXCEPT ![p] = "open"] /\ pc[p] = "blocked" /\ job' = job
      /\ UNCHANGED <<manners, early, uid, at, records, files, signals>> /\ lines' = lines
  BY DEF Message, At, Goto
<1>3. job' = [job EXCEPT ![p] = job[p]] /\ job'[p] = job[p] /\ job[p] \in Jobs
  BY <1>1, <1>2 DEF TypeOK
<1>4. lines' \in 0..MaxLines
  BY <1>1, <1>2 DEF TypeOK
<1>5. /\ "blocked" \in Calmly /\ "open" \in Calmly /\ "open" \in Locations
      /\ "blocked" \in Sending
  BY DEF Calmly, Staying, Living, Locations, Leaving, Sending
<1>6. /\ pc'[p] = "open"
      /\ uid' = uid /\ pending' = pending /\ hand' = hand /\ at' = at
  BY <1>1, <1>2 DEF TypeOK, signals
<1>7. Fits(p)'
  BY <1>1, <1>2, <1>3, <1>6 DEF Fits, Living, Locations, Leaving, Working, Sending
<1>8. Kept => /\ job[p].out # 0 => user[job[p].out] # NoProc
              /\ job[p].in # 0 => /\ fifofd[uid[p]][job[p].in] = job[p].input
                                  /\ job[p].input # NoFd
  BY <1>2 DEF Kept, Reached, Taking
<1>9. ASSUME Awaited, NEW a \in Slots, From(a) \in Said(job[p].line)
      PROVE  name[a][uid[p]] # 0 /\ pipe[name[a][uid[p]]].told
  BY <1>9 DEF Awaited, Offered
<1> QED
  BY <1>2, <1>3, <1>4, <1>5, <1>7, <1>8, <1>9, QuietStep

LEMMA NoSymbolStep ==
    ASSUME IInv, NEW p \in Procs, NoSymbol(p)
    PROVE  IInv'
<1>1. job \in [Procs -> Jobs]
  BY DEF IInv, TypeOK
<1>2. /\ Advance(p, TRUE, job) /\ pc[p] = "symbol"
      /\ UNCHANGED <<manners, early, uid, at, records, files, signals, lines>>
  BY DEF NoSymbol, At
<1> QED
  BY <1>1, <1>2, AdvanceStep

(* The descriptor of the record becomes the input of the line.             *)
LEMMA pipe_from_userStep ==
    ASSUME IInv, NEW p \in Procs, pipe_from_user(p)
    PROVE  IInv'
<1>1. TypeOK /\ Shape /\ Fits(p) /\ job \in [Procs -> Jobs]
  BY DEF IInv, Shape, TypeOK
<1>2. /\ pc[p] = "symbol" /\ Symbol(p).dir = "from"
      /\ UNCHANGED <<manners, early, uid, at, records, files, signals, lines>>
  BY DEF pipe_from_user, At
<1>3. PICK a \in Slots : a = Symbol(p).slot /\ From(a) \in Said(job[p].line) /\ a # 0
  <2>1. Symbol(p).slot \in Slots /\ Symbol(p) = From(Symbol(p).slot)
    BY <1>1, <1>2, SymbolSaid, SymbolForms
  <2>2. \A a \in Slots : a # 0
    BY ShmPipesAssumption DEF Slots
  <2> QED
    BY <1>1, <2>1, <2>2, SymbolSaid
<1>4. PICK fd \in Fds : fd = fifofd[uid[p]][a]
  BY <1>1, <1>2 DEF TypeOK, Fits
<1>5. CASE fd = NoFd
  <2>1. Advance(p, FALSE, job)
    BY <1>3, <1>4, <1>5 DEF pipe_from_user
  <2> QED
    BY <1>1, <1>2, <2>1, AdvanceStep
<1>6. CASE fd # NoFd
  <2> DEFINE k == [job[p] EXCEPT !.in = a, !.input = fd]
             js == [job EXCEPT ![p] = k]
  <2>1. Advance(p, TRUE, js)
    <3>1. js = [job EXCEPT ![p].in = a, ![p].input = fd]
      OBVIOUS
    <3> QED
      BY <1>3, <1>4, <1>6, <3>1 DEF pipe_from_user
  <2>2. /\ k \in Jobs /\ k.line = job[p].line /\ k.out = job[p].out
        /\ k.end = job[p].end /\ k.in = a /\ k.input = fd
    <3>1. job[p] \in Jobs
      BY <1>1
    <3>2. PICK x \in Jobs : x = job[p]
      BY <3>1
    <3>3. LET y == [x EXCEPT !.in = a, !.input = fd]
          IN  /\ y \in Jobs /\ y.line = x.line /\ y.stage = x.stage /\ y.out = x.out
              /\ y.end = x.end /\ y.in = a /\ y.input = fd
      BY JobIn
    <3> QED
      BY <3>2, <3>3
  <2> HIDE DEF k
  <2>3. /\ js \in [Procs -> Jobs] /\ js[p] = k
        /\ \A q \in Procs : q # p => js[q] = job[q]
    BY <1>1, <2>2
  <2> HIDE DEF js
  <2> QED
    BY <1>1, <1>2, <1>3, <1>4, <1>6, <2>1, <2>2, <2>3, AdvanceStep
<1> QED
  BY <1>5, <1>6

LEMMA FindUserStep ==
    ASSUME IInv, NEW p \in Procs, FindUser(p)
    PROVE  IInv'
<1>1. TypeOK /\ Shape /\ Fits(p) /\ job \in [Procs -> Jobs]
  BY DEF IInv, Shape, TypeOK
<1>2. /\ pc[p] = "symbol" /\ Symbol(p).dir = "to"
      /\ UNCHANGED <<manners, early, uid, at, records, files, signals, lines>>
  BY DEF FindUser, At
<1>3. CASE user[Symbol(p).slot] = NoProc
  <2>1. Advance(p, FALSE, job)
    BY <1>3 DEF FindUser
  <2> QED
    BY <1>1, <1>2, <2>1, AdvanceStep
<1>4. CASE user[Symbol(p).slot] # NoProc
  <2>1. pc' = [pc EXCEPT ![p] = "mknod"] /\ job' = job
    BY <1>4 DEF FindUser, Goto
  <2>2. job' = [job EXCEPT ![p] = job[p]] /\ job'[p] = job[p] /\ job[p] \in Jobs
    BY <1>1, <2>1 DEF TypeOK
  <2>3. lines' \in 0..MaxLines
    BY <1>1, <1>2 DEF TypeOK
  <2>4. /\ "symbol" \in Calmly /\ "mknod" \in Calmly /\ "mknod" \in Locations
        /\ "symbol" \in Sending
    BY DEF Calmly, Staying, Living, Locations, Leaving, Sending
  <2>5. /\ pc'[p] = "mknod"
        /\ uid' = uid /\ pending' = pending /\ hand' = hand /\ at' = at
    BY <1>1, <1>2, <2>1 DEF TypeOK, signals
  <2>6. Symbol(p)' = Symbol(p)
    BY <2>1 DEF Symbol
  <2>7. Fits(p)'
    BY <1>1, <1>2, <2>2, <2>5, <2>6 DEF Fits, Living, Locations, Leaving, Working, Sending
  <2>8. Kept => /\ job[p].out # 0 => user[job[p].out] # NoProc
                /\ job[p].in # 0 => /\ fifofd[uid[p]][job[p].in] = job[p].input
                                    /\ job[p].input # NoFd
    BY <1>2 DEF Kept, Reached, Taking
  <2>9. ASSUME Awaited, NEW a \in Slots, From(a) \in Said(job[p].line)
        PROVE  name[a][uid[p]] # 0 /\ pipe[name[a][uid[p]]].told
    BY <2>9 DEF Awaited, Offered
  <2> QED
    BY <1>2, <1>4, <2>1, <2>2, <2>3, <2>4, <2>6, <2>7, <2>8, <2>9, QuietStep
<1> QED
  BY <1>3, <1>4

-----------------------------------------------------------------------------
(* The steps of a command line between its symbols and its end.            *)

(* Two processes that live are one if they have one uid.                   *)
LEMMA OneUid ==
    ASSUME Kept, NEW p \in Procs, NEW q \in Procs, uid[p] = uid[q],
           pc[p] \in Living, pc[q] \in Living
    PROVE  p = q
  BY DEF Kept, Owned

(* The descriptor that a line takes is that of the FIFO made for its user. *)
LEMMA TakesOwn ==
    ASSUME TypeOK, Shape, Kept, NEW p \in Procs, job[p].in # 0, pc[p] # "unlink",
           NEW a \in Slots, a = job[p].in
    PROVE  /\ pc[p] \in Living /\ uid[p] \in Slots
           /\ name[a][uid[p]] \in Fifos /\ For(a, uid[p]) = p
           /\ job[p].input = Fd(p, name[a][uid[p]])
           /\ fifofd[uid[p]][a] = job[p].input /\ fifofd[uid[p]][a] # NoFd
<1>1. Fits(p)
  BY DEF Shape
<1>2. pc[p] \in Working
  BY <1>1, IdleParts DEF Fits
<1>3. pc[p] \in Living /\ uid[p] \in Slots
  BY <1>1, <1>2 DEF Fits, Working, Sending, Living, Locations
<1>4. fifofd[uid[p]][a] = job[p].input /\ fifofd[uid[p]][a] # NoFd
  BY DEF Kept, Taking
<1>5. /\ name[a][uid[p]] # 0
      /\ fifofd[uid[p]][a] = Fd(For(a, uid[p]), name[a][uid[p]])
  BY <1>3, <1>4 DEF Kept, Recorded
<1>6. name[a][uid[p]] \in Fifos
  BY <1>3, <1>5, ShmPipesAssumption DEF TypeOK, Fifos
<1>7. For(a, uid[p]) = p
  <2>1. For(a, uid[p]) \in Procs /\ pc[For(a, uid[p])] \in Living /\ uid[For(a, uid[p])] = uid[p]
    BY <1>3, <1>5 DEF Kept, Named
  <2> QED
    BY <1>3, <2>1, OneUid
<1> QED
  BY <1>3, <1>4, <1>5, <1>6, <1>7

(* The input of a line is a descriptor of its process.                     *)
LEMMA OwnInput ==
    ASSUME TypeOK, Shape, Kept, NEW p \in Procs, pc[p] # "unlink"
    PROVE  job[p].input.by = p \/ job[p].input = NoFd
<1>1. CASE job[p].in = 0
  BY <1>1 DEF Shape, Fits
<1>2. CASE job[p].in # 0
  <2>1. PICK a \in Slots : a = job[p].in
    BY <1>2, JobParts, ShmPipesAssumption DEF TypeOK, Slots
  <2>2. job[p].input = Fd(p, name[a][uid[p]])
    BY <1>2, <2>1, TakesOwn
  <2> QED
    BY <2>2 DEF Fd
<1> QED
  BY <1>1, <1>2

(* A line that pipes to a user and one of that user which takes that pipe  *)
(* are not under way at once.                                              *)
LEMMA NotTaken ==
    ASSUME Shape, Awaited, NEW p \in Procs, NEW q \in Procs, NEW b \in Slots,
           uid[p] \in Slots, uid[q] = b, job[q].in = uid[p],
           pc[p] \in Sending, job[p].out = b \/ (pc[p] = "kill" /\ Symbol(p) = To(b))
    PROVE  FALSE
<1>1. job[q].in # 0
  BY ShmPipesAssumption DEF Slots
<1>2. From(uid[p]) \in Said(job[q].line)
  BY <1>1 DEF Shape, Fits
<1>3. pipe[name[uid[p]][b]].told
  BY <1>2 DEF Awaited, Offered
<1>4. ~pipe[name[uid[p]][b]].told
  BY DEF Awaited, Unannounced
<1> QED
  BY <1>3, <1>4

LEMMA OpenStep ==
    ASSUME IInv, NEW p \in Procs, Open(p)
    PROVE  IInv'
<1>1. TypeOK /\ Shape /\ Fits(p)
  BY DEF IInv, Shape
<1>2. /\ pc[p] = "open" /\ ~pending[p] /\ hand[p] = 0
      /\ UNCHANGED <<manners, early, uid, at, records, name, pipe, hand, lines>>
  BY DEF Open, At
<1>3. /\ uid[p] \in Slots /\ job[p].out # 0 /\ job[p].out \in Slots /\ job[p] \in Jobs
      /\ pc[p] \in Sending /\ pc[p] \in Living /\ pc[p] \in Calmly
  <2>1. job[p] \in Jobs
    BY <1>1 DEF TypeOK
  <2>2. uid[p] \in Slots /\ job[p].out # 0
    BY <1>1, <1>2 DEF Fits
  <2>3. job[p].out \in 0..MaxSlot
    BY <2>1, JobParts
  <2> QED
    BY <1>2, <2>1, <2>2, <2>3, ShmPipesAssumption
       DEF Slots, Sending, Living, Locations, Calmly, Staying, Leaving
<1>4. PICK f \in 0..MaxMade : f = name[uid[p]][job[p].out]
  BY <1>1, <1>3 DEF TypeOK
<1>5. CASE f = 0
  <2>1. /\ pc' = [pc EXCEPT ![p] = "dead"] /\ job' = [job EXCEPT ![p] = Idle]
        /\ reads' = [g \in Fifos |-> reads[g] \ {p}]
        /\ pending' = [pending EXCEPT ![p] = FALSE]
    BY <1>4, <1>5 DEF Open, Ends, Goto
  <2>2. UNCHANGED <<uid, at, user, fifofd, name, pipe, hand, lines>> /\ manners' = manners /\ early' = early
    BY <1>2 DEF records
  <2>3. /\ pc' \in [Procs -> Locations] /\ job' \in [Procs -> Jobs]
        /\ reads' \in [Fifos -> SUBSET Procs] /\ pending' \in [Procs -> BOOLEAN]
    <3>1. "dead" \in Locations
      BY DEF Locations
    <3> QED
      BY <1>1, <2>1, <3>1, IdleParts DEF TypeOK
  <2>4. /\ pc'[p] = "dead" /\ job'[p] = Idle /\ ~pending'[p]
        /\ \A q \in Procs : q # p => pc'[q] = pc[q] /\ job'[q] = job[q] /\ pending'[q] = pending[q]
    BY <1>1, <2>1 DEF TypeOK
  <2>5. TypeOK'
    BY <1>1, <2>2, <2>3 DEF TypeOK
  <2>6. Fits(p)'
    BY <1>1, <1>2, <1>3, <2>2, <2>4, IdleParts DEF Fits, Living, Locations, Working, Sending, Leaving
  <2>7. Shape'
    BY <1>1, <2>2, <2>4, <2>6, FitsFrame DEF Shape
  <2>8. ~Alive'
    BY <2>4 DEF Alive
  <2>9. ~Awaited
    BY <1>3, <1>4, <1>5 DEF Awaited, Unannounced
  <2> QED
    BY <2>2, <2>5, <2>7, <2>8, <2>9, Layers
<1>6. CASE f # 0
  <2>1. f \in Fifos
    BY <1>6, ShmPipesAssumption DEF Fifos
  <2>2. PICK l \in {"blocked", "read"} : (l = "blocked") = (reads[f] = {})
                                         /\ pc' = [pc EXCEPT ![p] = l]
    <3>1. pc' = [pc EXCEPT ![p] = IF reads[f] = {} THEN "blocked" ELSE "read"]
      BY <1>4, <1>6 DEF Open, Goto
    <3>2. CASE reads[f] = {}
      BY <3>1, <3>2
    <3>3. CASE reads[f] # {}
      BY <3>1, <3>3
    <3> QED
      BY <3>2, <3>3
  <2>3. PICK j \in Jobs :
          /\ job' = [job EXCEPT ![p] = j]
          /\ j.line = job[p].line /\ j.out = job[p].out /\ j.end = f
          /\ j.in = job[p].in /\ j.input = job[p].input
    <3>1. job' = [job EXCEPT ![p].end = f]
      BY <1>4, <1>6 DEF Open
    <3>2. PICK x \in Jobs : x = job[p]
      BY <1>3
    <3>3. PICK y : y = [x EXCEPT !.end = f]
      OBVIOUS
    <3>4. /\ y \in Jobs /\ y.line = x.line /\ y.out = x.out
          /\ y.end = f /\ y.in = x.in /\ y.input = x.input
      BY <2>1, <3>3, JobEnd
    <3>5. job' = [job EXCEPT ![p] = y]
      BY <3>1, <3>2, <3>3
    <3> QED
      BY <3>2, <3>4, <3>5
  <2>4. UNCHANGED <<manners, early, uid, at, records, files, signals>> /\ lines' = lines
    BY <1>2, <1>4, <1>6 DEF Open, files, signals
  <2>5. lines' \in 0..MaxLines
    BY <1>1, <2>4 DEF TypeOK
  <2>6. /\ l \in Calmly /\ l \in Locations /\ l \in Working /\ l # "mknod"
    BY DEF Calmly, Staying, Living, Locations, Leaving, Working, Sending
  <2>7. /\ pc'[p] = l /\ job'[p] = j
        /\ uid' = uid /\ pending' = pending /\ hand' = hand /\ at' = at
    BY <1>1, <2>2, <2>3, <2>4 DEF TypeOK, signals
  <2>8. Fits(p)'
    BY <1>1, <1>2, <1>3, <2>2, <2>3, <2>6, <2>7 DEF Fits, Living, Locations, Leaving
  <2>9. Kept => /\ j.out # 0 => user[j.out] # NoProc
                /\ j.in # 0 => fifofd[uid[p]][j.in] = j.input /\ j.input # NoFd
    BY <1>2, <2>3 DEF Kept, Reached, Taking
  <2>10. ASSUME Awaited, NEW a \in Slots, From(a) \in Said(j.line)
         PROVE  name[a][uid[p]] # 0 /\ pipe[name[a][uid[p]]].told
    BY <2>3, <2>10 DEF Awaited, Offered
  <2>11. ASSUME Kept, Awaited
         PROVE  (l = "blocked") <=> (fifofd[j.out][uid[p]] = NoFd)
    <3> DEFINE b == job[p].out
    <3>1. CASE reads[f] # {}
      BY <1>3, <1>4, <1>6, <2>2, <2>3, <2>11, <3>1 DEF Kept, Named
    <3>2. CASE reads[f] = {}
      <4>1. l = "blocked"
        BY <2>2, <3>2
      <4>2. ASSUME fifofd[b][uid[p]] # NoFd PROVE FALSE
        <5>1. PICK q : q = For(uid[p], b)
          OBVIOUS
        <5>2. pc[q] = "forget" /\ job[q].in = uid[p]
          BY <1>3, <1>4, <2>11, <3>2, <4>2, <5>1 DEF Kept, Recorded
        <5>3. q \in Procs /\ uid[q] = b
          BY <1>3, <1>4, <1>6, <2>11, <5>1 DEF Kept, Named
        <5> QED
          BY <1>1, <1>3, <2>11, <5>2, <5>3, NotTaken
      <4> QED
        BY <2>3, <4>1, <4>2
    <3> QED
      BY <3>1, <3>2
  <2> QED
    BY <1>2, <1>3, <1>4, <2>2, <2>3, <2>4, <2>5, <2>6, <2>8, <2>9, <2>10, <2>11, QuietStep
<1> QED
  BY <1>5, <1>6

(* What the descriptors of records are.                                    *)
LEMMA FdParts ==
    /\ \A q, f : Fd(q, f).by = q /\ Fd(q, f).fifo = f
    /\ \A q \in Procs, f \in Fifos : Fd(q, f) # NoFd /\ Fd(q, f) \in Fds
    /\ \A fd \in Fds : fd.by \in Procs => fd # NoFd /\ fd.fifo \in Fifos
    /\ NoFd.by = NoProc /\ NoFd \in Fds
<1>1. /\ \A q, f : Fd(q, f).by = q /\ Fd(q, f).fifo = f
      /\ NoFd.by = NoProc /\ NoFd \in Fds
  BY DEF Fd, NoFd, Fds
<1>2. \A q \in Procs, f \in Fifos : Fd(q, f) # NoFd /\ Fd(q, f) \in Fds
  BY <1>1, ShmPipesAssumption DEF Fds
<1>3. ASSUME NEW fd \in Fds, fd.by \in Procs
      PROVE  fd # NoFd /\ fd.fifo \in Fifos
  <2>1. fd # NoFd
    BY <1>1, <1>3, ShmPipesAssumption
  <2>2. PICK q \in Procs, f \in Fifos : fd = Fd(q, f)
    BY <2>1 DEF Fds
  <2> QED
    BY <1>1, <2>1, <2>2
<1> QED
  BY <1>1, <1>2, <1>3

(* What a number may mean to a process; its own mean what they say.        *)
LEMMA MeansParts ==
    ASSUME TypeOK, NEW p \in Procs, NEW fd \in Fds
    PROVE  /\ \A f \in Means(p, fd) : f = 0 \/ f \in Fifos
           /\ fd.by = p => fd.fifo \in Fifos /\ Means(p, fd) = {fd.fifo}
           /\ fd = NoFd => Means(p, fd) = {0}
<1>1. fd.by = p => fd.fifo \in Fifos /\ Means(p, fd) = {fd.fifo}
  BY FdParts DEF Means
<1>2. fd.by # p => Means(p, fd) = {0} \union {f \in Fifos : fd # NoFd /\ p \in reads[f]}
  BY DEF Means
<1>3. fd = NoFd => fd.by # p
  BY FdParts, ShmPipesAssumption
<1> QED
  BY <1>1, <1>2, <1>3

(* To close a number closes at most one FIFO.                              *)
LEMMA ClosesEffect ==
    ASSUME TypeOK, NEW p \in Procs, NEW fd \in Fds, Closes(p, fd)
    PROVE  /\ reads' \in [Fifos -> SUBSET Procs]
           /\ fd.by = p \/ fd = NoFd =>
                 \A f \in Fifos : reads'[f] = IF fd.by = p /\ f = fd.fifo THEN reads[f] \ {p}
                                              ELSE reads[f]
<1>1. PICK g \in Means(p, fd) : reads' = IF g # 0 THEN [reads EXCEPT ![g] = @ \ {p}] ELSE reads
  BY DEF Closes
<1>2. reads \in [Fifos -> SUBSET Procs] /\ 0 \notin Fifos
  BY ShmPipesAssumption DEF TypeOK, Fifos
<1>3. CASE g = 0
  <2>1. reads' = reads /\ fd.by # p
    BY <1>1, <1>2, <1>3, MeansParts
  <2> QED
    BY <1>2, <2>1
<1>4. CASE g \in Fifos
  <2>1. reads' = [reads EXCEPT ![g] = reads[g] \ {p}]
    BY <1>1, <1>2, <1>4
  <2>2. fd.by = p \/ fd = NoFd => fd.by = p /\ g = fd.fifo
    BY <1>1, <1>2, <1>4, MeansParts
  <2> QED
    BY <1>2, <1>4, <2>1, <2>2
<1> QED
  BY <1>1, <1>3, <1>4, MeansParts

(* A command reads what it finds in the FIFO whose descriptor it has.      *)
LEMMA ReadPipeStep ==
    ASSUME IInv, NEW p \in Procs, ReadPipe(p)
    PROVE  IInv'
<1>1. TypeOK /\ Shape /\ Fits(p)
  BY DEF IInv, Shape
<1>2. /\ pc[p] = "read" /\ pc' = [pc EXCEPT ![p] = "write"] /\ job' = job
      /\ UNCHANGED <<uid, at, user, fifofd, name, reads, pending, hand, lines>>
      /\ manners' = manners /\ early' = early
  BY DEF ReadPipe, At, Goto, records, signals
<1>3. PICK fd \in Fds : fd = job[p].input
  <2>1. job[p] \in Jobs
    BY <1>1 DEF TypeOK
  <2> QED
    BY <2>1, JobParts
<1>4. /\ pc' \in [Procs -> Locations] /\ pc'[p] = "write"
      /\ \A q \in Procs : q # p => pc'[q] = pc[q] /\ job'[q] = job[q]
  BY <1>1, <1>2 DEF TypeOK, Locations
<1>5. /\ pipe' \in [Fifos -> Pipes]
      /\ \A f \in Fifos : /\ pipe'[f].by = pipe[f].by /\ pipe'[f].for = pipe[f].for
                          /\ pipe'[f].told = pipe[f].told
                          /\ (fd.by = p \/ fd = NoFd) /\ pipe'[f].state # pipe[f].state
                                => fd.by = p /\ f = fd.fifo
  <2>1. PICK g \in Means(p, fd) : pipe' = IF g # 0 /\ pipe[g].state = "full"
                                         THEN [pipe EXCEPT ![g].state = "taken"] ELSE pipe
    BY <1>3 DEF ReadPipe
  <2>2. CASE g # 0 /\ pipe[g].state = "full"
    <3>1. g \in Fifos /\ (fd.by = p \/ fd = NoFd => fd.by = p /\ g = fd.fifo)
      BY <1>1, <2>2, MeansParts
    <3>2. pipe' = [pipe EXCEPT ![g].state = "taken"]
      BY <2>1, <2>2
    <3>3. PICK x \in Pipes : x = pipe[g]
      BY <1>1, <3>1 DEF TypeOK
    <3>4. PICK y : y = [x EXCEPT !.state = "taken"]
      OBVIOUS
    <3>5. y \in Pipes /\ y.by = x.by /\ y.for = x.for /\ y.told = x.told
      BY <3>4 DEF Pipes
    <3>6. pipe' = [pipe EXCEPT ![g] = y]
      BY <3>2, <3>3, <3>4
    <3>7. pipe \in [Fifos -> Pipes]
      BY <1>1 DEF TypeOK
    <3>8. pipe'[g] = y /\ \A f \in Fifos : f # g => pipe'[f] = pipe[f]
      BY <3>1, <3>6, <3>7
    <3>9. pipe' \in [Fifos -> Pipes]
      BY <3>1, <3>5, <3>6, <3>7
    <3> QED
      BY <3>1, <3>3, <3>5, <3>8, <3>9
  <2>3. CASE ~(g # 0 /\ pipe[g].state = "full")
    <3>1. pipe' = pipe
      BY <2>1, <2>3
    <3> QED
      BY <1>1, <3>1 DEF TypeOK
  <2> QED
    BY <2>2, <2>3
<1>6. TypeOK'
  BY <1>1, <1>2, <1>4, <1>5 DEF TypeOK
<1>7. Fits(p)'
  BY <1>1, <1>2, <1>4 DEF Fits, Living, Locations, Leaving, Working, Sending
<1>8. Shape'
  BY <1>1, <1>2, <1>4, <1>7, FitsFrame DEF Shape
<1>9. /\ pc[p] \in Calmly /\ pc'[p] \in Calmly
      /\ pc[p] # "dead"
  BY <1>2, <1>4 DEF Calmly, Staying, Living, Locations, Leaving
<1>10. ASSUME Kept PROVE Kept'
  <2>1. job[p].out # 0 => user[job[p].out] # NoProc
    BY <1>10 DEF Kept, Reached
  <2>2. job[p].in # 0 => /\ fifofd[uid[p]][job[p].in] = job[p].input
                         /\ job[p].input # NoFd
    BY <1>2, <1>10 DEF Kept, Taking
  <2> QED
    BY <1>1, <1>2, <1>4, <1>5, <1>6, <1>8, <1>9, <1>10, <2>1, <2>2, QuietKept
<1>11. ASSUME Kept, Awaited PROVE Awaited'
  <2>1. Alive'
    BY <1>4, <1>11 DEF Awaited, Alive
  <2>2. \A a, b \in Slots : name[a][b] # 0 =>
            /\ name[a][b] \in Fifos
            /\ pipe'[name[a][b]].told = pipe[name[a][b]].told
            /\ For(a, b)' = For(a, b)
    BY <1>1, <1>2, <1>5, ShmPipesAssumption DEF TypeOK, Fifos, For
  <2>3. Unannounced'
    <3>1. \A q \in Procs : /\ Symbol(q)' = Symbol(q)
                           /\ pc'[q] \in Sending => pc[q] \in Sending
                           /\ pc'[q] = "kill" => pc[q] = "kill"
      BY <1>2, <1>4 DEF Symbol, Sending
    <3>2. \A q \in Procs : pc[q] \in Sending => uid[q] \in Slots
      BY <1>1 DEF Shape, Fits, Sending
    <3> QED
      BY <1>2, <1>11, <2>2, <3>1, <3>2 DEF Awaited, Unannounced
  <2>4. Offered'
    <3>1. ASSUME NEW q \in Procs, NEW a \in Slots, From(a) \in Said(job[q].line)
          PROVE  uid[q] \in Slots
      <4>1. job[q] # Idle
        BY <3>1, IdleParts, SymbolsDiffer
      <4> QED
        BY <1>1, <4>1 DEF Shape, Fits, Working, Sending
    <3> QED
      BY <1>2, <1>11, <2>2, <3>1 DEF Awaited, Offered
  <2>5. Opened'
    BY <1>2, <1>4, <1>11 DEF Awaited, Opened
  <2>6. ASSUME NEW a \in Slots, NEW b \in Slots, name[a][b] # 0, pipe'[name[a][b]].told
        PROVE  \/ pipe'[name[a][b]].state = "full"
               \/ pc'[For(a, b)] \in {"write", "forget", "unlink"} /\ job[For(a, b)].in = a
    <3>1. PICK q \in Procs : q = For(a, b)
      BY <1>11, <2>6 DEF Kept, Named
    <3>2. \/ pipe[name[a][b]].state = "full"
          \/ pc[q] \in {"write", "forget", "unlink"} /\ job[q].in = a
      BY <1>11, <2>2, <2>6, <3>1 DEF Awaited, Whole
    <3>3. pc[q] \in {"write", "forget", "unlink"} => pc'[q] = pc[q]
      BY <1>2, <1>4
    <3>4. CASE pipe'[name[a][b]].state # pipe[name[a][b]].state
      <4>1. fd.by = p \/ fd = NoFd
        BY <1>1, <1>2, <1>3, <1>11, OwnInput
      <4>2. fd.by = p /\ name[a][b] = fd.fifo /\ fd # NoFd
        BY <1>5, <2>2, <2>6, <3>4, <4>1, FdParts
      <4>3. job[p].in # 0 /\ job[p] \in Jobs
        BY <1>1, <1>3, <4>2 DEF Fits, TypeOK
      <4>4. PICK c \in Slots : c = job[p].in
        BY <4>3, JobParts, ShmPipesAssumption DEF Slots
      <4>5. /\ uid[p] \in Slots /\ For(c, uid[p]) = p
            /\ fd = Fd(p, name[c][uid[p]])
        BY <1>1, <1>2, <1>3, <1>11, <4>3, <4>4, TakesOwn
      <4>6. name[a][b] = name[c][uid[p]]
        BY <4>2, <4>5, FdParts
      <4>7. a = c /\ b = uid[p]
        BY <1>11, <2>6, <4>5, <4>6 DEF Kept, Distinct
      <4> QED
        BY <1>4, <4>4, <4>5, <4>7
    <3>5. CASE pipe'[name[a][b]].state = pipe[name[a][b]].state
      BY <3>1, <3>2, <3>3, <3>5
    <3> QED
      BY <3>4, <3>5
  <2>7. Whole'
    BY <1>2, <2>2, <2>6 DEF Whole
  <2> QED
    BY <2>1, <2>3, <2>4, <2>5, <2>7 DEF Awaited
<1>12. Alive' => Alive
  BY <1>4, <1>9, StaysAlive
<1> QED
  BY <1>1, <1>2, <1>6, <1>8, <1>10, <1>11, <1>12, Layers

(* Who works on a line, or sends, has a uid; who takes a pipe works.       *)
LEMMA HasUid ==
    ASSUME Shape, NEW q \in Procs
    PROVE  /\ pc[q] \in Living => uid[q] \in Slots
           /\ pc[q] \in Working => pc[q] \in Living
           /\ pc[q] \in Sending => pc[q] \in Living
           /\ job[q].out # 0 => pc[q] \in Living
           /\ job[q].in # 0 => pc[q] \in Living
           /\ \A a : From(a) \in Said(job[q].line) => pc[q] \in Living
           /\ \A a : To(a) \in Said(job[q].line) => pc[q] \in Living
<1>1. Fits(q)
  BY DEF Shape
<1>2. pc[q] \in Working => pc[q] \in Living
  BY DEF Working, Sending, Living, Locations
<1>3. pc[q] \in Sending => pc[q] \in Living
  BY DEF Sending, Living, Locations
<1>4. pc[q] \in Living => uid[q] \in Slots
  BY <1>1 DEF Fits, Living
<1>5. pc[q] \notin Working => job[q] = Idle
  BY <1>1 DEF Fits
<1> QED
  BY <1>2, <1>3, <1>4, <1>5, IdleParts, SymbolsDiffer

(* The number of a name in the directory is that of a FIFO.                *)
LEMMA NameTyped ==
    ASSUME TypeOK, NEW a \in Slots, NEW b \in Slots
    PROVE  name[a][b] # 0 => name[a][b] \in Fifos
  BY ShmPipesAssumption DEF TypeOK, Fifos

(* The FIFO that a line writes to is the one it has made, and its receiver *)
(* has it open.                                                            *)
LEMMA WritesOwn ==
    ASSUME TypeOK, Shape, Kept, Awaited, NEW p \in Procs, NEW b \in Slots, b = job[p].out,
           pc[p] \in {"read", "write"}
    PROVE  /\ job[p].end = name[uid[p]][b] /\ name[uid[p]][b] # 0
           /\ For(uid[p], b) \in reads[name[uid[p]][b]]
<1>1. job[p].out # 0 /\ uid[p] \in Slots /\ pc[p] \in Sending
  BY HasUid, ShmPipesAssumption DEF Slots, Sending, Working
<1>2. job[p].end = name[uid[p]][b] /\ fifofd[b][uid[p]] # NoFd
  BY <1>1 DEF Awaited, Opened
<1>3. name[uid[p]][b] # 0
  BY <1>1 DEF Awaited, Unannounced
<1>4. PICK q \in Procs : q = For(uid[p], b) /\ uid[q] = b
  BY <1>1, <1>3 DEF Kept, Named
<1>5. ~(pc[q] = "forget" /\ job[q].in = uid[p])
  BY <1>1, <1>4, NotTaken
<1> QED
  BY <1>1, <1>2, <1>3, <1>4, <1>5 DEF Kept, Recorded

(* A command writes, and ends; its user is told.                           *)
LEMMA WritePipeStep ==
    ASSUME IInv, NEW p \in Procs, WritePipe(p)
    PROVE  IInv'
<1>1. TypeOK /\ Shape /\ Fits(p)
  BY DEF IInv, Shape
<1>2. /\ pc[p] = "write" /\ ~pending[p] /\ hand[p] = 0
      /\ UNCHANGED <<uid, at, user, fifofd, name, pending, hand, lines>>
      /\ manners' = manners /\ early' = early
  BY DEF WritePipe, At, records, signals
<1>3. PICK fd \in Fds, e \in 0..MaxMade : fd = job[p].input /\ e = job[p].end
  <2>1. job[p] \in Jobs
    BY <1>1 DEF TypeOK
  <2> QED
    BY <2>1, JobParts
<1>4. PICK l \in {"forget", "prompt"}, j \in Jobs :
        /\ pc' = [pc EXCEPT ![p] = l] /\ job' = [job EXCEPT ![p] = j]
        /\ job[p].in # 0 => l = "forget" /\ j = job[p]
        /\ job[p].in = 0 => l = "prompt" /\ j = Idle
  <2>1. CASE job[p].in # 0
    <3>1. pc' = [pc EXCEPT ![p] = "forget"] /\ job' = job
      BY <2>1 DEF WritePipe, Goto
    <3>2. job' = [job EXCEPT ![p] = job[p]] /\ job[p] \in Jobs
      BY <1>1, <3>1 DEF TypeOK
    <3> QED
      BY <2>1, <3>1, <3>2
  <2>2. CASE job[p].in = 0
    <3>1. pc' = [pc EXCEPT ![p] = "prompt"] /\ job' = [job EXCEPT ![p] = Idle]
      BY <2>2 DEF WritePipe, Goto
    <3> QED
      BY <2>2, <3>1, IdleParts
  <2> QED
    BY <2>1, <2>2
<1>5. /\ pc' \in [Procs -> Locations] /\ job' \in [Procs -> Jobs]
      /\ pc'[p] = l /\ job'[p] = j
      /\ \A q \in Procs : q # p => pc'[q] = pc[q] /\ job'[q] = job[q]
  BY <1>1, <1>4 DEF TypeOK, Locations
<1>6. /\ pipe' \in [Fifos -> Pipes]
      /\ \A f \in Fifos : /\ pipe'[f].by = pipe[f].by /\ pipe'[f].for = pipe[f].for
                          /\ f # e => pipe'[f] = pipe[f]
                          /\ f = e => /\ pipe'[f].told
                                      /\ reads[f] # {} => pipe'[f].state = "full"
  <2>1. CASE e = 0
    <3>1. pipe' = pipe /\ \A f \in Fifos : f # e
      BY <1>3, <2>1, ShmPipesAssumption DEF WritePipe, Fifos
    <3> QED
      BY <1>1, <3>1 DEF TypeOK
  <2>2. CASE e # 0
    <3>1. e \in Fifos
      BY <2>2, ShmPipesAssumption DEF Fifos
    <3>2. PICK x \in Pipes : x = pipe[e]
      BY <1>1, <3>1 DEF TypeOK
    <3>3. PICK s \in {"empty", "full", "taken"} :
            /\ reads[e] # {} => s = "full"
            /\ pipe' = [pipe EXCEPT ![e] = [x EXCEPT !.told = TRUE, !.state = s]]
      <4>1. pipe' = [pipe EXCEPT ![e].told = TRUE,
                                 ![e].state = IF reads[e] # {} THEN "full" ELSE @]
        BY <1>3, <2>2 DEF WritePipe
      <4>2. x.state \in {"empty", "full", "taken"}
        BY DEF Pipes
      <4>3. CASE reads[e] # {}
        BY <3>2, <4>1, <4>3
      <4>4. CASE reads[e] = {}
        <5>1. pipe' = [pipe EXCEPT ![e] = [x EXCEPT !.told = TRUE, !.state = x.state]]
          BY <3>2, <4>1, <4>4
        <5> QED
          BY <4>2, <4>4, <5>1
      <4> QED
        BY <4>3, <4>4
    <3>4. PICK y : y = [x EXCEPT !.told = TRUE, !.state = s]
      OBVIOUS
    <3>5. y \in Pipes /\ y.by = x.by /\ y.for = x.for /\ y.told /\ y.state = s
      BY <3>4 DEF Pipes
    <3>6. pipe' = [pipe EXCEPT ![e] = y]
      BY <3>3, <3>4
    <3>7. pipe \in [Fifos -> Pipes]
      BY <1>1 DEF TypeOK
    <3>8. pipe'[e] = y /\ \A f \in Fifos : f # e => pipe'[f] = pipe[f]
      BY <3>1, <3>6, <3>7
    <3>9. pipe' \in [Fifos -> Pipes]
      BY <3>5, <3>6, <3>7
    <3> QED
      BY <3>2, <3>3, <3>5, <3>8, <3>9
  <2> QED
    BY <2>1, <2>2
<1>7. /\ reads' \in [Fifos -> SUBSET Procs]
      /\ fd.by = p \/ fd = NoFd =>
            \A f \in Fifos : reads'[f] = IF fd.by = p /\ f = fd.fifo THEN reads[f] \ {p}
                                         ELSE reads[f]
  <2>1. Closes(p, fd)
    BY <1>3 DEF WritePipe
  <2> QED
    BY <1>1, <2>1, ClosesEffect
<1>8. TypeOK'
  BY <1>1, <1>2, <1>5, <1>6, <1>7 DEF TypeOK
<1>9. Fits(p)'
  BY <1>1, <1>2, <1>4, <1>5, IdleParts DEF Fits, Living, Locations, Leaving, Working, Sending
<1>10. Shape'
  BY <1>1, <1>2, <1>5, <1>9, FitsFrame DEF Shape
<1>11. fd.by = p => job[p].in # 0
  BY <1>1, <1>3, FdParts DEF Fits
<1>12. ASSUME Kept PROVE Kept'
  <2>0. \A f \in Fifos : reads'[f] = IF fd.by = p /\ f = fd.fifo THEN reads[f] \ {p} ELSE reads[f]
    BY <1>1, <1>2, <1>3, <1>7, <1>12, OwnInput
  <2>1. \A q \in Procs : /\ (pc'[q] \in Staying) = (pc[q] \in Staying)
                         /\ (pc'[q] \in Leaving) = (pc[q] \in Leaving)
                         /\ (pc'[q] \in Living) = (pc[q] \in Living)
    BY <1>2, <1>5 DEF Staying, Living, Leaving, Locations
  <2>2. Owned'
    BY <1>1, <1>2, <1>12, <2>1, OwnedFrame DEF Kept
  <2>3. Calm'
    BY <1>2, <1>5, <1>12 DEF Kept, Calm, Leaving
  <2>4. \A q \in Procs : q # p => Symbol(q)' = Symbol(q)
    BY <1>5 DEF Symbol
  <2>5. Reached'
    BY <1>2, <1>4, <1>5, <1>12, <2>4, IdleParts DEF Kept, Reached
  <2>6. \A a, b \in Slots : name[a][b] # 0 =>
            /\ name[a][b] \in Fifos
            /\ For(a, b)' = For(a, b) /\ By(a, b)' = By(a, b)
    BY <1>1, <1>2, <1>6, NameTyped DEF For, By
  <2>7. ASSUME job[p].in # 0
        PROVE  \E a \in Slots :
                  /\ a = job[p].in /\ uid[p] \in Slots /\ name[a][uid[p]] \in Fifos
                  /\ For(a, uid[p]) = p /\ fd = Fd(p, name[a][uid[p]])
                  /\ fifofd[uid[p]][a] = fd /\ fd # NoFd
    <3>1. PICK a \in Slots : a = job[p].in
      BY <1>1, <2>7, JobParts, ShmPipesAssumption DEF TypeOK, Slots
    <3> QED
      BY <1>1, <1>2, <1>3, <1>12, <2>7, <3>1, TakesOwn
  <2>8. Taking'
    <3>1. ASSUME job'[p].in # 0
          PROVE  LET a == job'[p].in
                 IN  /\ pc'[p] = "forget"
                     /\ fifofd[uid[p]][a] = job'[p].input /\ job'[p].input # NoFd
                     /\ p \notin reads'[name[a][uid[p]]]
      <4>1. job[p].in # 0 /\ l = "forget" /\ j = job[p]
        BY <1>4, <1>5, <3>1, IdleParts
      <4>2. PICK a \in Slots :
                  /\ a = job[p].in /\ uid[p] \in Slots /\ name[a][uid[p]] \in Fifos
                  /\ For(a, uid[p]) = p /\ fd = Fd(p, name[a][uid[p]])
                  /\ fifofd[uid[p]][a] = fd /\ fd # NoFd
        BY <2>7, <4>1
      <4>3. p \notin reads'[name[a][uid[p]]]
        <5>1. PICK f \in Fifos : f = name[a][uid[p]] /\ fd = Fd(p, f)
          BY <4>2
        <5>2. fd.by = p /\ fd.fifo = f
          BY <5>1 DEF Fd
        <5>3. reads'[f] = reads[f] \ {p}
          BY <2>0, <5>2
        <5> QED
          BY <5>1, <5>3
      <4> QED
        BY <1>3, <1>5, <4>1, <4>2, <4>3
    <3>2. ASSUME NEW q \in Procs, q # p, job[q].in # 0, pc[q] = "forget"
          PROVE  q \notin reads'[name[job[q].in][uid[q]]]
      <4>1. q \notin reads[name[job[q].in][uid[q]]]
        BY <1>12, <3>2 DEF Kept, Taking
      <4>2. PICK a \in Slots : a = job[q].in /\ name[a][uid[q]] \in Fifos
        <5>1. PICK a \in Slots : a = job[q].in
          BY <1>1, <3>2, JobParts, ShmPipesAssumption DEF TypeOK, Slots
        <5> QED
          BY <1>1, <1>12, <3>2, <5>1, TakesOwn
      <4> QED
        BY <2>0, <4>1, <4>2
    <3> QED
      BY <1>2, <1>5, <1>12, <3>1, <3>2 DEF Kept, Taking
  <2>9. ASSUME NEW a \in Slots, NEW b \in Slots, name[a][b] # 0, Due(a, b), By(a, b) \in Procs,
               For(a, b) \in Procs
        PROVE  Due(a, b)'
    BY <1>2, <1>5, <2>4, <2>6, <2>9 DEF Due
  <2>10. \A f \in Fifos : reads'[f] \subseteq reads[f]
    BY <2>0
  <2>11. Named'
    <3>1. Named
      BY <1>12 DEF Kept
    <3>2. ASSUME NEW a \in Slots, NEW b \in Slots, name[a][b] # 0
          PROVE  /\ By(a, b)' \in Procs
                 /\ For(a, b)' \in Procs /\ pc'[For(a, b)'] \in Living /\ uid[For(a, b)'] = b
                 /\ \A q \in reads'[name[a][b]] : q = For(a, b)' /\ fifofd[b][a] # NoFd
                 /\ fifofd[b][a] = NoFd => Due(a, b)'
      BY <2>1, <2>6, <2>9, <2>10, <3>1, <3>2 DEF Named
    <3> QED
      BY <1>2, <3>2 DEF Named
  <2>12. Distinct' /\ Cleared'
    BY <1>2, <1>5, <1>12 DEF Kept, Distinct, Cleared, Leaving
  <2>13. Fresh'
    BY <1>6, <1>12, <2>10 DEF Kept, Fresh
  <2>14. Recorded'
    <3>1. ASSUME NEW a \in Slots, NEW b \in Slots, fifofd[b][a] # NoFd
          PROVE  /\ name[a][b] # 0
                 /\ fifofd[b][a] = Fd(For(a, b)', name[a][b])
                 /\ \/ For(a, b)' \in reads'[name[a][b]]
                    \/ pc'[For(a, b)'] = "forget" /\ job'[For(a, b)'].in = a
      <4>1. /\ name[a][b] # 0 /\ fifofd[b][a] = Fd(For(a, b), name[a][b])
            /\ \/ For(a, b) \in reads[name[a][b]]
               \/ pc[For(a, b)] = "forget" /\ job[For(a, b)].in = a
        BY <1>12, <3>1 DEF Kept, Recorded
      <4>2. PICK q \in Procs : q = For(a, b) /\ q = For(a, b)'
        BY <1>12, <2>6, <4>1 DEF Kept, Named
      <4>3. CASE pc[q] = "forget" /\ job[q].in = a
        BY <1>2, <1>5, <4>1, <4>2, <4>3
      <4>4. CASE q \in reads'[name[a][b]]
        BY <4>1, <4>2, <4>4
      <4>5. CASE q \in reads[name[a][b]] /\ q \notin reads'[name[a][b]]
        <5>1. q = p /\ fd.by = p /\ name[a][b] = fd.fifo
          BY <2>0, <2>6, <4>1, <4>5
        <5>2. PICK c \in Slots :
                  /\ c = job[p].in /\ uid[p] \in Slots /\ name[c][uid[p]] \in Fifos
                  /\ For(c, uid[p]) = p /\ fd = Fd(p, name[c][uid[p]])
                  /\ fifofd[uid[p]][c] = fd /\ fd # NoFd
          BY <1>11, <2>7, <5>1
        <5>3. name[c][uid[p]] = name[a][b]
          BY <5>1, <5>2, FdParts
        <5>4. a = c
          BY <1>12, <4>1, <5>2, <5>3 DEF Kept, Distinct
        <5> QED
          BY <1>4, <1>5, <1>11, <4>1, <4>2, <5>1, <5>2, <5>4
      <4> QED
        BY <4>1, <4>2, <4>3, <4>4, <4>5
    <3> QED
      BY <1>2, <3>1 DEF Recorded
  <2> QED
    BY <2>2, <2>3, <2>5, <2>8, <2>11, <2>12, <2>13, <2>14 DEF Kept
<1>13. ASSUME Kept, Awaited PROVE Awaited'
  <2>1. Alive'
    BY <1>5, <1>13 DEF Awaited, Alive
  <2>2. \A a, b \in Slots : name[a][b] # 0 =>
            /\ name[a][b] \in Fifos /\ For(a, b)' = For(a, b)
            /\ pipe[name[a][b]].told => pipe'[name[a][b]].told
    BY <1>1, <1>2, <1>6, NameTyped DEF For
  <2>3. Unannounced'
    <3>1. ASSUME NEW q \in Procs, NEW b \in Slots, pc'[q] \in Sending,
                 job'[q].out = b \/ (pc'[q] = "kill" /\ Symbol(q)' = To(b))
          PROVE  name[uid[q]][b] # 0 /\ ~pipe'[name[uid[q]][b]].told
      <4>1. q # p /\ pc'[q] = pc[q] /\ job'[q] = job[q] /\ Symbol(q)' = Symbol(q)
        BY <1>5, <3>1 DEF Sending, Symbol
      <4>2. uid[q] \in Slots /\ pc[q] \in Living
        BY <1>1, <3>1, <4>1, HasUid
      <4>3. name[uid[q]][b] # 0 /\ ~pipe[name[uid[q]][b]].told
        BY <1>13, <3>1, <4>1 DEF Awaited, Unannounced
      <4>4. name[uid[q]][b] # e
        <5>1. SUFFICES ASSUME name[uid[q]][b] = e PROVE FALSE
          OBVIOUS
        <5>2. job[p] \in Jobs /\ job[p].out # 0
          BY <1>1, <1>3, <4>3, <5>1 DEF Fits, TypeOK
        <5>3. PICK c \in Slots : c = job[p].out
          BY <5>2, JobParts, ShmPipesAssumption DEF Slots
        <5>4. e = name[uid[p]][c] /\ uid[p] \in Slots /\ pc[p] \in Living
          BY <1>1, <1>2, <1>3, <1>13, <5>2, <5>3, WritesOwn, HasUid
        <5>5. uid[q] = uid[p]
          BY <1>13, <4>2, <4>3, <5>1, <5>4 DEF Kept, Distinct
        <5> QED
          BY <1>13, <4>1, <4>2, <5>4, <5>5, OneUid
      <4> QED
        BY <1>6, <2>2, <4>2, <4>3, <4>4
    <3> QED
      BY <1>2, <3>1 DEF Unannounced
  <2>4. Offered'
    <3>1. ASSUME NEW q \in Procs, NEW a \in Slots, From(a) \in Said(job'[q].line)
          PROVE  name[a][uid[q]] # 0 /\ pipe'[name[a][uid[q]]].told
      <4>1. From(a) \in Said(job[q].line)
        BY <1>4, <1>5, <3>1, IdleParts, SymbolsDiffer
      <4>2. uid[q] \in Slots
        BY <1>1, <4>1, HasUid
      <4> QED
        BY <1>13, <2>2, <4>1, <4>2 DEF Awaited, Offered
    <3> QED
      BY <1>2, <3>1 DEF Offered
  <2>5. Opened'
    BY <1>2, <1>5, <1>13 DEF Awaited, Opened
  <2>6. ASSUME NEW a \in Slots, NEW b \in Slots, name[a][b] # 0, pipe'[name[a][b]].told
        PROVE  \/ pipe'[name[a][b]].state = "full"
               \/ pc'[For(a, b)] \in {"write", "forget", "unlink"} /\ job'[For(a, b)].in = a
    <3>1. PICK q \in Procs : q = For(a, b)
      BY <1>13, <2>6 DEF Kept, Named
    <3>2. CASE name[a][b] = e
      <4>1. job[p] \in Jobs /\ job[p].out # 0
        BY <1>1, <1>3, <2>6, <3>2 DEF Fits, TypeOK
      <4>2. PICK c \in Slots : c = job[p].out
        BY <4>1, JobParts, ShmPipesAssumption DEF Slots
      <4>3. For(uid[p], c) \in reads[e]
        BY <1>1, <1>2, <1>3, <1>13, <4>1, <4>2, WritesOwn
      <4> QED
        BY <1>6, <2>2, <2>6, <3>2, <4>3
    <3>3. CASE name[a][b] # e
      <4>1. pipe'[name[a][b]] = pipe[name[a][b]]
        BY <1>6, <2>2, <2>6, <3>3
      <4>2. \/ pipe[name[a][b]].state = "full"
            \/ pc[q] \in {"write", "forget", "unlink"} /\ job[q].in = a
        BY <1>13, <2>6, <3>1, <4>1 DEF Awaited, Whole
      <4>3. CASE q = p
        <5>1. a # 0
          BY ShmPipesAssumption DEF Slots
        <5> QED
          BY <1>4, <1>5, <3>1, <4>1, <4>2, <4>3, <5>1
      <4>4. CASE q # p
        BY <1>5, <3>1, <4>1, <4>2, <4>4
      <4> QED
        BY <4>3, <4>4
    <3> QED
      BY <3>2, <3>3
  <2>7. Whole'
    BY <1>2, <2>2, <2>6 DEF Whole
  <2> QED
    BY <2>1, <2>3, <2>4, <2>5, <2>7 DEF Awaited
<1>14. Alive' => Alive
  BY <1>2, <1>5, StaysAlive
<1> QED
  BY <1>1, <1>2, <1>8, <1>10, <1>12, <1>13, <1>14, Layers

(* One cell of the records, or of the directory, changes.                  *)
Put(m, s, a, v) == [m EXCEPT ![s][a] = v]

LEMMA CellOfRecords ==
    ASSUME TypeOK, NEW s \in Slots, NEW a \in Slots, NEW v \in Fds
    PROVE  /\ Put(fifofd, s, a, v) \in [Slots -> [Slots -> Fds]]
           /\ Put(fifofd, s, a, v)[s][a] = v
           /\ \A t \in Slots : t # s => Put(fifofd, s, a, v)[t] = fifofd[t]
           /\ \A c \in Slots : c # a => Put(fifofd, s, a, v)[s][c] = fifofd[s][c]
<1>1. PICK m \in [Slots -> [Slots -> Fds]] : m = fifofd
  BY DEF TypeOK
<1>2. PICK r \in [Slots -> Fds] : r = m[s]
  OBVIOUS
<1>3. PICK x : x = [r EXCEPT ![a] = v]
  OBVIOUS
<1>4. x \in [Slots -> Fds] /\ x[a] = v /\ \A c \in Slots : c # a => x[c] = r[c]
  BY <1>3
<1>5. PICK n : n = Put(fifofd, s, a, v)
  OBVIOUS
<1>6. n = [m EXCEPT ![s] = x]
  BY <1>1, <1>2, <1>3, <1>5 DEF Put
<1> QED
  BY <1>1, <1>2, <1>4, <1>5, <1>6

LEMMA CellOfDirectory ==
    ASSUME TypeOK, NEW a \in Slots, NEW b \in Slots, NEW f \in 0..MaxMade
    PROVE  /\ Put(name, a, b, f) \in [Slots -> [Slots -> 0..MaxMade]]
           /\ Put(name, a, b, f)[a][b] = f
           /\ \A c \in Slots : c # a => Put(name, a, b, f)[c] = name[c]
           /\ \A d \in Slots : d # b => Put(name, a, b, f)[a][d] = name[a][d]
<1> DEFINE Names == 0..MaxMade
<1>1. PICK m \in [Slots -> [Slots -> Names]] : m = name
  BY DEF TypeOK
<1>2. f \in Names
  OBVIOUS
<1> HIDE DEF Names
<1>3. PICK r \in [Slots -> Names] : r = m[a]
  OBVIOUS
<1>4. PICK x : x = [r EXCEPT ![b] = f]
  OBVIOUS
<1>5. x \in [Slots -> Names] /\ x[b] = f /\ \A c \in Slots : c # b => x[c] = r[c]
  BY <1>2, <1>4
<1>6. PICK n : n = Put(name, a, b, f)
  OBVIOUS
<1>7. n = [m EXCEPT ![a] = x]
  BY <1>1, <1>3, <1>4, <1>6 DEF Put
<1>8. n \in [Slots -> [Slots -> Names]]
  BY <1>5, <1>7
<1>9. /\ n[a][b] = f
      /\ \A c \in Slots : c # a => n[c] = name[c]
      /\ \A d \in Slots : d # b => n[a][d] = name[a][d]
  BY <1>1, <1>3, <1>5, <1>7
<1> QED
  BY <1>6, <1>8, <1>9 DEF Names

LEMMA RecordsPut ==
    ASSUME TypeOK, NEW s \in Slots, NEW a \in Slots, NEW v \in Fds,
           fifofd' = Put(fifofd, s, a, v)
    PROVE  /\ fifofd' \in [Slots -> [Slots -> Fds]]
           /\ fifofd'[s][a] = v
           /\ \A t, c \in Slots : t # s \/ c # a => fifofd'[t][c] = fifofd[t][c]
<1>1. \A t \in Slots : t # s => fifofd'[t] = fifofd[t]
  BY CellOfRecords
<1>2. \A c \in Slots : c # a => fifofd'[s][c] = fifofd[s][c]
  BY CellOfRecords
<1>3. fifofd' \in [Slots -> [Slots -> Fds]] /\ fifofd'[s][a] = v
  BY CellOfRecords
<1> QED
  BY <1>1, <1>2, <1>3

LEMMA DirectoryPut ==
    ASSUME TypeOK, NEW a \in Slots, NEW b \in Slots, NEW f \in 0..MaxMade,
           name' = Put(name, a, b, f)
    PROVE  /\ name' \in [Slots -> [Slots -> 0..MaxMade]]
           /\ name'[a][b] = f
           /\ \A c, d \in Slots : c # a \/ d # b => name'[c][d] = name[c][d]
<1>1. \A c \in Slots : c # a => name'[c] = name[c]
  BY CellOfDirectory
<1>2. \A d \in Slots : d # b => name'[a][d] = name[a][d]
  BY CellOfDirectory
<1>3. name' \in [Slots -> [Slots -> 0..MaxMade]] /\ name'[a][b] = f
  BY CellOfDirectory
<1> QED
  BY <1>1, <1>2, <1>3

(* The slot that a line takes its pipe from.                               *)
LEMMA TakesFrom ==
    ASSUME TypeOK, NEW p \in Procs, job[p].in # 0
    PROVE  job[p].in \in Slots
<1>1. job[p].in \in 0..MaxSlot
  BY JobParts DEF TypeOK
<1> QED
  BY <1>1, ShmPipesAssumption DEF Slots

(* The record forgets the pipe that was taken.                             *)
LEMMA ForgetStep ==
    ASSUME IInv, NEW p \in Procs, Forget(p)
    PROVE  IInv'
<1>1. TypeOK /\ Shape /\ Fits(p)
  BY DEF IInv, Shape
<1>2. /\ pc[p] = "forget" /\ ~pending[p] /\ hand[p] = 0 /\ job' = job
      /\ pc' = [pc EXCEPT ![p] = "unlink"]
      /\ UNCHANGED <<uid, at, user, name, pipe, reads, pending, hand, lines>>
      /\ manners' = manners /\ early' = early
  BY DEF Forget, At, Goto, files, signals
<1>3. job[p].in # 0 /\ pc[p] \in Living /\ uid[p] \in Slots
  BY <1>1, <1>2, HasUid DEF Fits
<1>4. PICK s \in Slots, a \in Slots : s = uid[p] /\ a = job[p].in
  BY <1>1, <1>3, TakesFrom
<1>5. fifofd' = Put(fifofd, s, a, NoFd)
  BY <1>4 DEF Forget, Put
<1>6. /\ fifofd' \in [Slots -> [Slots -> Fds]]
      /\ fifofd'[s][a] = NoFd
      /\ \A t, c \in Slots : t # s \/ c # a => fifofd'[t][c] = fifofd[t][c]
  <2>1. NoFd \in Fds
    BY FdParts
  <2> QED
    BY <1>1, <1>5, <2>1, RecordsPut
<1>7. /\ pc' \in [Procs -> Locations] /\ pc'[p] = "unlink"
      /\ \A q \in Procs : q # p => pc'[q] = pc[q]
      /\ \A q \in Procs : job'[q] = job[q] /\ Symbol(q)' = Symbol(q)
  BY <1>1, <1>2 DEF TypeOK, Locations, Symbol
<1>8. TypeOK'
  BY <1>1, <1>2, <1>6, <1>7 DEF TypeOK
<1>9. Fits(p)'
  BY <1>1, <1>2, <1>7 DEF Fits, Living, Locations, Leaving, Working, Sending
<1>10. Shape'
  BY <1>1, <1>2, <1>7, <1>9, FitsFrame DEF Shape
<1>11. \A x, y \in Slots : For(x, y)' = For(x, y) /\ By(x, y)' = By(x, y)
  BY <1>2 DEF For, By
<1>12. ASSUME Kept PROVE Kept'
  <2>1. \A q \in Procs : /\ (pc'[q] \in Staying) = (pc[q] \in Staying)
                         /\ (pc'[q] \in Leaving) = (pc[q] \in Leaving)
                         /\ (pc'[q] \in Living) = (pc[q] \in Living)
    BY <1>2, <1>7 DEF Staying, Living, Leaving, Locations
  <2>2. Owned'
    BY <1>1, <1>2, <1>12, <2>1, OwnedFrame DEF Kept
  <2>3. Calm'
    BY <1>2, <1>7, <1>12 DEF Kept, Calm, Leaving
  <2>4. Reached'
    BY <1>2, <1>7, <1>12 DEF Kept, Reached
  <2>5. /\ For(a, s) = p /\ fifofd[s][a] # NoFd /\ name[a][s] # 0
        /\ p \notin reads[name[a][s]]
    <3>1. For(a, s) = p /\ fifofd[s][a] # NoFd
      BY <1>1, <1>2, <1>3, <1>4, <1>12, TakesOwn
    <3>2. p \notin reads[name[a][s]]
      BY <1>2, <1>3, <1>4, <1>12 DEF Kept, Taking
    <3> QED
      BY <1>12, <3>1, <3>2 DEF Kept, Recorded
  <2>6. Taking'
    <3>1. ASSUME NEW q \in Procs, q # p, job[q].in # 0
          PROVE  fifofd'[uid[q]][job[q].in] = fifofd[uid[q]][job[q].in]
      <4>1. uid[q] \in Slots /\ pc[q] \in Living /\ job[q].in \in Slots
        BY <1>1, <3>1, HasUid, TakesFrom
      <4>2. uid[q] # s
        BY <1>3, <1>4, <1>12, <3>1, <4>1, OneUid
      <4> QED
        BY <1>6, <4>1, <4>2
    <3> QED
      BY <1>2, <1>4, <1>6, <1>7, <1>12, <3>1 DEF Kept, Taking
  <2>7. ASSUME NEW x \in Slots, NEW y \in Slots, name[x][y] # 0
        PROVE  /\ By(x, y)' \in Procs
               /\ For(x, y)' \in Procs /\ pc'[For(x, y)'] \in Living /\ uid[For(x, y)'] = y
               /\ \A q \in reads[name[x][y]] : q = For(x, y)' /\ fifofd'[y][x] # NoFd
               /\ fifofd'[y][x] = NoFd => Due(x, y)'
    <3>1. /\ By(x, y) \in Procs
          /\ For(x, y) \in Procs /\ pc[For(x, y)] \in Living /\ uid[For(x, y)] = y
          /\ \A q \in reads[name[x][y]] : q = For(x, y) /\ fifofd[y][x] # NoFd
          /\ fifofd[y][x] = NoFd => Due(x, y)
      BY <1>12, <2>7 DEF Kept, Named
    <3>2. CASE x = a /\ y = s
      <4>1. reads[name[x][y]] = {}
        BY <2>5, <3>1, <3>2
      <4>2. Due(x, y)'
        BY <1>4, <1>7, <1>11, <2>5, <3>2 DEF Due
      <4> QED
        BY <1>11, <2>1, <3>1, <4>1, <4>2
    <3>3. CASE ~(x = a /\ y = s)
      <4>1. fifofd'[y][x] = fifofd[y][x]
        BY <1>6, <3>3
      <4>2. Due(x, y) => Due(x, y)'
        BY <1>2, <1>7, <1>11, <3>1 DEF Due
      <4> QED
        BY <1>11, <2>1, <3>1, <4>1, <4>2
    <3> QED
      BY <3>2, <3>3
  <2>8. Named'
    BY <1>2, <2>7 DEF Named
  <2>9. Distinct' /\ Fresh'
    BY <1>2, <1>12 DEF Kept, Distinct, Fresh
  <2>10. Recorded'
    <3>1. ASSUME NEW x \in Slots, NEW y \in Slots, fifofd'[y][x] # NoFd
          PROVE  /\ name[x][y] # 0
                 /\ fifofd'[y][x] = Fd(For(x, y), name[x][y])
                 /\ \/ For(x, y) \in reads[name[x][y]]
                    \/ pc'[For(x, y)] = "forget" /\ job[For(x, y)].in = x
      <4>1. fifofd'[y][x] = fifofd[y][x] /\ ~(x = a /\ y = s)
        BY <1>6, <3>1
      <4>2. /\ name[x][y] # 0
            /\ fifofd[y][x] = Fd(For(x, y), name[x][y])
            /\ \/ For(x, y) \in reads[name[x][y]]
               \/ pc[For(x, y)] = "forget" /\ job[For(x, y)].in = x
        BY <1>12, <3>1, <4>1 DEF Kept, Recorded
      <4>3. PICK q \in Procs : q = For(x, y) /\ uid[q] = y
        BY <1>12, <4>2 DEF Kept, Named
      <4>4. q = p => job[q].in # x
        BY <1>4, <4>1, <4>3
      <4> QED
        BY <1>7, <4>1, <4>2, <4>3, <4>4
    <3> QED
      BY <1>2, <1>11, <3>1 DEF Recorded
  <2>11. Cleared'
    <3>1. ASSUME NEW q \in Procs, pc'[q] \in Leaving
          PROVE  /\ \A x \in Slots : x < at[q] => name[x][uid[q]] = 0
                 /\ pc'[q] = "remove" => fifofd'[uid[q]][at[q]] = NoFd
      <4>1. q # p /\ pc'[q] = pc[q]
        BY <1>7, <3>1 DEF Leaving
      <4>2. /\ \A x \in Slots : x < at[q] => name[x][uid[q]] = 0
            /\ pc[q] = "remove" => fifofd[uid[q]][at[q]] = NoFd
        BY <1>12, <3>1, <4>1 DEF Kept, Cleared
      <4>3. pc[q] = "remove" => uid[q] \in Slots /\ at[q] \in Slots
        BY <1>1, <4>1, ShmPipesAssumption DEF Shape, Fits, TypeOK, Slots
      <4> QED
        BY <1>6, <4>1, <4>2, <4>3
    <3> QED
      BY <1>2, <3>1 DEF Cleared
  <2> QED
    BY <2>2, <2>3, <2>4, <2>6, <2>8, <2>9, <2>10, <2>11 DEF Kept
<1>13. ASSUME Kept, Awaited PROVE Awaited'
  <2>1. Alive'
    BY <1>7, <1>13 DEF Awaited, Alive
  <2>2. Unannounced'
    BY <1>2, <1>7, <1>13 DEF Awaited, Unannounced, Sending
  <2>3. Offered'
    BY <1>2, <1>13 DEF Awaited, Offered
  <2>4. Opened'
    <3>1. ASSUME NEW q \in Procs, pc'[q] \in {"blocked", "read", "write"}, job[q].out # 0
          PROVE  /\ job[q].end = name[uid[q]][job[q].out]
                 /\ (pc'[q] = "blocked") <=> (fifofd'[job[q].out][uid[q]] = NoFd)
      <4>1. pc'[q] = pc[q] /\ pc[q] \in Sending
        BY <1>7, <3>1 DEF Sending
      <4>2. PICK b \in Slots : b = job[q].out
        <5>1. job[q].out \in 0..MaxSlot
          BY <1>1, JobParts DEF TypeOK
        <5> QED
          BY <3>1, <5>1, ShmPipesAssumption DEF Slots
      <4>3. uid[q] \in Slots
        BY <1>1, <4>1, HasUid
      <4>4. b # s \/ uid[q] # a
        BY <1>1, <1>4, <1>13, <4>1, <4>2, <4>3, NotTaken
      <4>5. fifofd'[b][uid[q]] = fifofd[b][uid[q]]
        BY <1>6, <4>3, <4>4
      <4> QED
        BY <1>13, <3>1, <4>1, <4>2, <4>5 DEF Awaited, Opened
    <3> QED
      BY <1>2, <3>1 DEF Opened
  <2>5. Whole'
    <3>1. \A q \in Procs : pc[q] \in {"write", "forget", "unlink"}
                            => pc'[q] \in {"write", "forget", "unlink"}
      BY <1>7
    <3> QED
      BY <1>2, <1>11, <1>13, <3>1 DEF Kept, Named, Awaited, Whole
  <2> QED
    BY <2>1, <2>2, <2>3, <2>4, <2>5 DEF Awaited
<1>14. Alive' => Alive
  BY <1>2, <1>7, StaysAlive
<1> QED
  BY <1>1, <1>2, <1>8, <1>10, <1>12, <1>13, <1>14, Layers

(* The FIFO that was taken is removed from the directory.                  *)
LEMMA UnlinkStep ==
    ASSUME IInv, NEW p \in Procs, Unlink(p)
    PROVE  IInv'
<1>1. TypeOK /\ Shape /\ Fits(p)
  BY DEF IInv, Shape
<1>2. /\ pc[p] = "unlink" /\ ~pending[p] /\ hand[p] = 0
      /\ pc' = [pc EXCEPT ![p] = "prompt"] /\ job' = [job EXCEPT ![p] = Idle]
      /\ UNCHANGED <<uid, at, user, fifofd, pipe, reads, pending, hand, lines>>
      /\ manners' = manners /\ early' = early
  BY DEF Unlink, At, Goto, records, signals
<1>3. job[p].in # 0 /\ pc[p] \in Living /\ uid[p] \in Slots
  BY <1>1, <1>2, HasUid DEF Fits
<1>4. PICK s \in Slots, a \in Slots : s = uid[p] /\ a = job[p].in
  BY <1>1, <1>3, TakesFrom
<1>5. name' = Put(name, a, s, 0)
  BY <1>4 DEF Unlink, Put
<1>6. /\ name' \in [Slots -> [Slots -> 0..MaxMade]]
      /\ name'[a][s] = 0
      /\ \A c, d \in Slots : c # a \/ d # s => name'[c][d] = name[c][d]
  <2>1. 0 \in 0..MaxMade
    BY ShmPipesAssumption
  <2> QED
    BY <1>1, <1>5, <2>1, DirectoryPut
<1>7. /\ pc' \in [Procs -> Locations] /\ pc'[p] = "prompt"
      /\ job' \in [Procs -> Jobs] /\ job'[p] = Idle
      /\ \A q \in Procs : q # p =>
            pc'[q] = pc[q] /\ job'[q] = job[q] /\ Symbol(q)' = Symbol(q)
  BY <1>1, <1>2, IdleParts DEF TypeOK, Locations, Symbol
<1>8. TypeOK'
  BY <1>1, <1>2, <1>6, <1>7 DEF TypeOK
<1>9. Fits(p)'
  BY <1>1, <1>2, <1>7, IdleParts DEF Fits, Living, Locations, Leaving, Working, Sending
<1>10. Shape'
  BY <1>1, <1>2, <1>7, <1>9, FitsFrame DEF Shape
<1>11. \A x, y \in Slots : name'[x][y] # 0 =>
          /\ name'[x][y] = name[x][y] /\ ~(x = a /\ y = s)
          /\ For(x, y)' = For(x, y) /\ By(x, y)' = By(x, y)
  BY <1>2, <1>6 DEF For, By
<1>12. ASSUME Kept PROVE Kept'
  <2>1. \A q \in Procs : /\ (pc'[q] \in Staying) = (pc[q] \in Staying)
                         /\ (pc'[q] \in Leaving) = (pc[q] \in Leaving)
                         /\ (pc'[q] \in Living) = (pc[q] \in Living)
    BY <1>2, <1>7 DEF Staying, Living, Leaving, Locations
  <2>2. Owned'
    BY <1>1, <1>2, <1>12, <2>1, OwnedFrame DEF Kept
  <2>3. Calm'
    BY <1>2, <1>7, <1>12 DEF Kept, Calm, Leaving
  <2>4. Reached'
    BY <1>2, <1>7, <1>12, IdleParts DEF Kept, Reached
  <2>5. fifofd[s][a] = NoFd
    BY <1>2, <1>3, <1>4, <1>12 DEF Kept, Taking
  <2>6. Taking'
    <3>1. ASSUME NEW q \in Procs, q # p, job[q].in # 0
          PROVE  name'[job[q].in][uid[q]] = name[job[q].in][uid[q]]
      <4>1. uid[q] \in Slots /\ pc[q] \in Living /\ job[q].in \in Slots
        BY <1>1, <3>1, HasUid, TakesFrom
      <4>2. uid[q] # s
        BY <1>3, <1>4, <1>12, <3>1, <4>1, OneUid
      <4> QED
        BY <1>6, <4>1, <4>2
    <3> QED
      BY <1>2, <1>7, <1>12, <3>1, IdleParts DEF Kept, Taking
  <2>7. ASSUME NEW x \in Slots, NEW y \in Slots, name'[x][y] # 0
        PROVE  /\ By(x, y)' \in Procs
               /\ For(x, y)' \in Procs /\ pc'[For(x, y)'] \in Living /\ uid[For(x, y)'] = y
               /\ \A q \in reads[name'[x][y]] : q = For(x, y)' /\ fifofd[y][x] # NoFd
               /\ fifofd[y][x] = NoFd => Due(x, y)'
    <3>1. /\ name'[x][y] = name[x][y] /\ ~(x = a /\ y = s)
          /\ For(x, y)' = For(x, y) /\ By(x, y)' = By(x, y)
      BY <1>11, <2>7
    <3>2. /\ By(x, y) \in Procs
          /\ For(x, y) \in Procs /\ pc[For(x, y)] \in Living /\ uid[For(x, y)] = y
          /\ \A q \in reads[name[x][y]] : q = For(x, y) /\ fifofd[y][x] # NoFd
          /\ fifofd[y][x] = NoFd => Due(x, y)
      BY <1>12, <2>7, <3>1 DEF Kept, Named
    <3>3. PICK q \in Procs, r \in Procs : q = For(x, y) /\ r = By(x, y)
      BY <3>2
    <3>4. ~(q = p /\ job[q].in = x)
      BY <1>4, <3>1, <3>2, <3>3
    <3>5. Due(x, y) => Due(x, y)'
      BY <1>2, <1>7, <3>1, <3>3, <3>4 DEF Due
    <3> QED
      BY <2>1, <3>1, <3>2, <3>5
  <2>8. Named'
    BY <1>2, <2>7 DEF Named
  <2>9. Distinct'
    BY <1>11, <1>12 DEF Kept, Distinct
  <2>10. Fresh'
    BY <1>2, <1>12 DEF Kept, Fresh
  <2>11. Recorded'
    <3>1. ASSUME NEW x \in Slots, NEW y \in Slots, fifofd[y][x] # NoFd
          PROVE  /\ name'[x][y] # 0 /\ name'[x][y] = name[x][y]
                 /\ fifofd[y][x] = Fd(For(x, y)', name[x][y])
                 /\ \/ For(x, y)' \in reads[name[x][y]]
                    \/ pc'[For(x, y)'] = "forget" /\ job'[For(x, y)'].in = x
      <4>1. /\ name[x][y] # 0
            /\ fifofd[y][x] = Fd(For(x, y), name[x][y])
            /\ \/ For(x, y) \in reads[name[x][y]]
               \/ pc[For(x, y)] = "forget" /\ job[For(x, y)].in = x
        BY <1>12, <3>1 DEF Kept, Recorded
      <4>2. name'[x][y] = name[x][y]
        BY <1>6, <2>5, <3>1
      <4>3. PICK q \in Procs : q = For(x, y) /\ q = For(x, y)'
        BY <1>11, <1>12, <4>1, <4>2 DEF Kept, Named
      <4> QED
        BY <1>2, <1>7, <4>1, <4>2, <4>3
    <3> QED
      BY <1>2, <3>1 DEF Recorded
  <2>12. Cleared'
    <3>1. ASSUME NEW q \in Procs, pc'[q] \in Leaving
          PROVE  /\ \A x \in Slots : x < at[q] => name'[x][uid[q]] = 0
                 /\ pc'[q] = "remove" => fifofd[uid[q]][at[q]] = NoFd
      <4>1. q # p /\ pc'[q] = pc[q]
        BY <1>7, <3>1 DEF Leaving
      <4>2. /\ \A x \in Slots : x < at[q] => name[x][uid[q]] = 0
            /\ pc[q] = "remove" => fifofd[uid[q]][at[q]] = NoFd
        BY <1>12, <3>1, <4>1 DEF Kept, Cleared
      <4>3. uid[q] \in Slots
        BY <1>1, <3>1, <4>1, HasUid DEF Leaving, Living, Locations
      <4> QED
        BY <1>6, <4>1, <4>2, <4>3
    <3> QED
      BY <1>2, <3>1 DEF Cleared
  <2> QED
    BY <2>2, <2>3, <2>4, <2>6, <2>8, <2>9, <2>10, <2>11, <2>12 DEF Kept
<1>13. ASSUME Kept, Awaited PROVE Awaited'
  <2>1. Alive'
    BY <1>7, <1>13 DEF Awaited, Alive
  <2>2. Unannounced'
    <3>1. ASSUME NEW q \in Procs, NEW b \in Slots, pc'[q] \in Sending,
                 job'[q].out = b \/ (pc'[q] = "kill" /\ Symbol(q)' = To(b))
          PROVE  name'[uid[q]][b] # 0 /\ ~pipe[name'[uid[q]][b]].told
      <4>1. q # p /\ pc'[q] = pc[q] /\ job'[q] = job[q] /\ Symbol(q)' = Symbol(q)
        BY <1>7, <3>1 DEF Sending
      <4>2. uid[q] \in Slots
        BY <1>1, <3>1, <4>1, HasUid
      <4>3. name[uid[q]][b] # 0 /\ ~pipe[name[uid[q]][b]].told
        BY <1>13, <3>1, <4>1 DEF Awaited, Unannounced
      <4>4. ~(uid[q] = a /\ b = s)
        BY <1>1, <1>4, <1>13, <3>1, <4>1, <4>2, NotTaken
      <4> QED
        BY <1>6, <4>2, <4>3, <4>4
    <3> QED
      BY <1>2, <3>1 DEF Unannounced
  <2>3. Offered'
    <3>1. ASSUME NEW q \in Procs, NEW c \in Slots, From(c) \in Said(job'[q].line)
          PROVE  name'[c][uid[q]] # 0 /\ pipe[name'[c][uid[q]]].told
      <4>1. q # p /\ job'[q] = job[q]
        BY <1>7, <3>1, IdleParts, SymbolsDiffer
      <4>2. uid[q] \in Slots /\ pc[q] \in Living
        BY <1>1, <3>1, <4>1, HasUid
      <4>3. uid[q] # s
        BY <1>3, <1>4, <1>13, <4>1, <4>2, OneUid
      <4>4. name[c][uid[q]] # 0 /\ pipe[name[c][uid[q]]].told
        BY <1>13, <3>1, <4>1 DEF Awaited, Offered
      <4> QED
        BY <1>6, <4>2, <4>3, <4>4
    <3> QED
      BY <1>2, <3>1 DEF Offered
  <2>4. Opened'
    <3>1. ASSUME NEW q \in Procs, pc'[q] \in {"blocked", "read", "write"}, job'[q].out # 0
          PROVE  /\ job'[q].end = name'[uid[q]][job'[q].out]
                 /\ (pc'[q] = "blocked") <=> (fifofd[job'[q].out][uid[q]] = NoFd)
      <4>1. q # p /\ pc'[q] = pc[q] /\ job'[q] = job[q] /\ pc[q] \in Sending
        BY <1>7, <3>1 DEF Sending
      <4>2. PICK b \in Slots : b = job[q].out
        <5>1. job[q].out \in 0..MaxSlot
          BY <1>1, JobParts DEF TypeOK
        <5> QED
          BY <3>1, <4>1, <5>1, ShmPipesAssumption DEF Slots
      <4>3. uid[q] \in Slots
        BY <1>1, <4>1, HasUid
      <4>4. b # s \/ uid[q] # a
        BY <1>1, <1>4, <1>13, <4>1, <4>2, <4>3, NotTaken
      <4>5. name'[uid[q]][b] = name[uid[q]][b]
        BY <1>6, <4>3, <4>4
      <4> QED
        BY <1>13, <3>1, <4>1, <4>2, <4>5 DEF Awaited, Opened
    <3> QED
      BY <1>2, <3>1 DEF Opened
  <2>5. Whole'
    <3>1. ASSUME NEW x \in Slots, NEW y \in Slots, name'[x][y] # 0, pipe[name'[x][y]].told
          PROVE  \/ pipe[name'[x][y]].state = "full"
                 \/ pc'[For(x, y)'] \in {"write", "forget", "unlink"} /\ job'[For(x, y)'].in = x
      <4>1. name'[x][y] = name[x][y] /\ ~(x = a /\ y = s) /\ For(x, y)' = For(x, y)
        BY <1>11, <3>1
      <4>2. PICK q \in Procs : q = For(x, y) /\ uid[q] = y
        BY <1>13, <3>1, <4>1 DEF Kept, Named
      <4>3. ~(q = p /\ job[q].in = x)
        BY <1>4, <4>1, <4>2
      <4>4. \/ pipe[name[x][y]].state = "full"
            \/ pc[q] \in {"write", "forget", "unlink"} /\ job[q].in = x
        BY <1>13, <3>1, <4>1, <4>2 DEF Awaited, Whole
      <4> QED
        BY <1>7, <4>1, <4>2, <4>3, <4>4
    <3> QED
      BY <1>2, <3>1 DEF Whole
  <2> QED
    BY <2>1, <2>2, <2>3, <2>4, <2>5 DEF Awaited
<1>14. Alive' => Alive
  BY <1>2, <1>7, StaysAlive
<1> QED
  BY <1>1, <1>2, <1>8, <1>10, <1>12, <1>13, <1>14, Layers

-----------------------------------------------------------------------------
(* A line makes its FIFO and sends its signal.                             *)

(* The user a line pipes to has the record of the slot.                    *)
LEMMA ReachedUser ==
    ASSUME TypeOK, Shape, Kept, NEW p \in Procs, pc[p] \in {"mknod", "kill"}
    PROVE  \E b \in Slots, r \in Procs :
              /\ b = Symbol(p).slot /\ Symbol(p) = To(b)
              /\ user[b] = r /\ uid[r] = b /\ pc[r] \in Staying
<1>1. PICK b \in Slots : b = Symbol(p).slot /\ Symbol(p) = To(b)
  BY SymbolSaid, SymbolForms DEF Shape, Fits
<1>2. user[b] # NoProc
  BY <1>1 DEF Kept, Reached
<1>3. PICK r \in Procs : r = user[b]
  BY <1>2 DEF TypeOK
<1>4. uid[r] = b /\ pc[r] \in Staying
  BY <1>2, <1>3 DEF Kept, Owned
<1> QED
  BY <1>1, <1>3, <1>4

(* mknod refuses a name that is there already.                             *)
LEMMA MknodStep ==
    ASSUME IInv, NEW p \in Procs, Mknod(p)
    PROVE  IInv'
<1>1. TypeOK /\ Shape /\ Fits(p) /\ job \in [Procs -> Jobs]
  BY DEF IInv, Shape, TypeOK
<1>2. /\ pc[p] = "mknod"
      /\ UNCHANGED <<manners, early, uid, at, records, reads, signals, lines>>
  BY DEF Mknod, At
<1>3. /\ pc[p] \in Living /\ uid[p] \in Slots /\ pc[p] \in Sending
      /\ pc[p] \in Staying
  BY <1>1, <1>2, HasUid DEF Living, Locations, Sending, Staying, Leaving
<1>4. PICK s \in Slots, b \in Slots : s = uid[p] /\ b = Symbol(p).slot /\ Symbol(p) = To(b)
  BY <1>1, <1>2, <1>3, SymbolSaid, SymbolForms DEF Fits
<1>5. CASE name[s][b] # 0
  <2>1. Advance(p, FALSE, job) /\ UNCHANGED <<name, pipe>>
    BY <1>4, <1>5 DEF Mknod
  <2>2. UNCHANGED <<manners, early, uid, at, records, files, signals, lines>>
    BY <1>2, <2>1 DEF files
  <2> QED
    BY <1>1, <1>2, <2>1, <2>2, AdvanceStep
<1>6. CASE name[s][b] = 0
  <2>1. PICK f \in Fifos : /\ pipe[f] = Unused
                           /\ name' = Put(name, s, b, f)
                           /\ pipe' = [pipe EXCEPT ![f].by = p, ![f].for = user[b]]
                           /\ pc' = [pc EXCEPT ![p] = "kill"] /\ job' = job
    <3> DEFINE free == {g \in Fifos : pipe[g] = Unused}
               f    == CHOOSE g \in free : \A h \in free : g <= h
    <3>1. /\ free # {}
          /\ name' = [name EXCEPT ![s][b] = f]
          /\ pipe' = [pipe EXCEPT ![f].by = p, ![f].for = user[b]]
          /\ pc' = [pc EXCEPT ![p] = "kill"] /\ job' = job
      BY <1>4, <1>6 DEF Mknod, Goto
    <3>2. f \in free
      <4>1. Fifos \subseteq Nat
        BY ShmPipesAssumption DEF Fifos
      <4>2. free \subseteq Nat
        BY <4>1
      <4>3. \E g \in free : \A h \in free : g <= h
        BY <3>1, <4>2, LeastOf
      <4> HIDE DEF free
      <4> QED
        BY <4>3
    <3> QED
      BY <3>1, <3>2 DEF Put
  <2>2. /\ UNCHANGED <<uid, at, user, fifofd, reads, pending, hand, lines>>
        /\ manners' = manners /\ early' = early
    BY <1>2 DEF records, signals
  <2>3. /\ name' \in [Slots -> [Slots -> 0..MaxMade]]
        /\ name'[s][b] = f
        /\ \A c, d \in Slots : c # s \/ d # b => name'[c][d] = name[c][d]
    <3>1. f \in 0..MaxMade
      BY ShmPipesAssumption DEF Fifos
    <3> QED
      BY <1>1, <2>1, <3>1, DirectoryPut
  <2>4. PICK x \in Procs \union {NoProc} : x = user[b]
    BY <1>1 DEF TypeOK
  <2>5. /\ pipe' \in [Fifos -> Pipes]
        /\ pipe'[f].by = p /\ pipe'[f].for = x /\ ~pipe'[f].told
        /\ \A g \in Fifos : g # f => pipe'[g] = pipe[g]
    <3>1. PICK y \in Pipes : y = pipe[f]
      BY <1>1 DEF TypeOK
    <3>2. PICK z : z = [y EXCEPT !.by = p, !.for = x]
      OBVIOUS
    <3>3. z \in Pipes /\ z.by = p /\ z.for = x /\ z.told = y.told
      BY <3>2 DEF Pipes
    <3>4. ~y.told
      BY <2>1, <3>1 DEF Unused
    <3>5. pipe' = [pipe EXCEPT ![f] = z]
      BY <2>1, <2>4, <3>1, <3>2
    <3>6. pipe \in [Fifos -> Pipes]
      BY <1>1 DEF TypeOK
    <3>7. pipe' \in [Fifos -> Pipes]
      BY <3>3, <3>5, <3>6
    <3>8. pipe'[f] = z /\ \A g \in Fifos : g # f => pipe'[g] = pipe[g]
      BY <3>5, <3>6
    <3> QED
      BY <3>3, <3>4, <3>7, <3>8
  <2>6. /\ pc' \in [Procs -> Locations] /\ pc'[p] = "kill"
        /\ \A q \in Procs : q # p => pc'[q] = pc[q]
        /\ \A q \in Procs : job'[q] = job[q] /\ Symbol(q)' = Symbol(q)
    BY <1>1, <2>1 DEF TypeOK, Locations, Symbol
  <2>7. TypeOK'
    BY <1>1, <2>1, <2>2, <2>3, <2>5, <2>6 DEF TypeOK
  <2>8. Fits(p)'
    BY <1>1, <1>2, <2>2, <2>6 DEF Fits, Living, Locations, Leaving, Working, Sending
  <2>9. Shape'
    BY <1>1, <2>2, <2>6, <2>8, FitsFrame DEF Shape
  <2>10. f # 0 /\ pipe[f].by = NoProc
    BY <2>1, ShmPipesAssumption DEF Fifos, Unused
  <2>11. ASSUME Kept, NEW c \in Slots, NEW d \in Slots, name[c][d] # 0
         PROVE  /\ name[c][d] # f /\ ~(c = s /\ d = b) /\ name'[c][d] = name[c][d]
                /\ pipe'[name[c][d]] = pipe[name[c][d]]
                /\ For(c, d)' = For(c, d) /\ By(c, d)' = By(c, d)
    <3>1. name[c][d] \in Fifos /\ By(c, d) \in Procs
      BY <1>1, <2>11, NameTyped DEF Kept, Named
    <3>2. name[c][d] # f
      BY <2>10, <3>1, ShmPipesAssumption DEF By
    <3>3. name'[c][d] = name[c][d] /\ ~(c = s /\ d = b)
      BY <1>6, <2>3, <2>11
    <3>4. pipe'[name[c][d]] = pipe[name[c][d]]
      BY <2>5, <3>1, <3>2
    <3> QED
      BY <3>2, <3>3, <3>4 DEF For, By
  <2>12. ASSUME Kept
         PROVE  x \in Procs /\ x # NoProc /\ uid[x] = b /\ pc[x] \in Staying
    BY <1>1, <1>2, <1>4, <2>4, <2>12, ReachedUser, ShmPipesAssumption
  <2>13. For(s, b)' = x /\ By(s, b)' = p
    BY <2>3, <2>5 DEF For, By
  <2>14. ASSUME Kept PROVE Kept'
    <3>1. \A q \in Procs : /\ (pc'[q] \in Staying) = (pc[q] \in Staying)
                           /\ (pc'[q] \in Leaving) = (pc[q] \in Leaving)
                           /\ (pc'[q] \in Living) = (pc[q] \in Living)
      BY <1>2, <2>6 DEF Staying, Living, Leaving, Locations
    <3>2. Owned'
      BY <1>1, <2>2, <2>14, <3>1, OwnedFrame DEF Kept
    <3>3. Calm'
      BY <2>2, <2>6, <2>14 DEF Kept, Calm, Leaving
    <3>4. Reached'
      BY <1>2, <2>2, <2>6, <2>14 DEF Kept, Reached
    <3>5. Taking'
      <4>1. ASSUME NEW q \in Procs, job[q].in # 0, pc[q] = "forget"
            PROVE  name'[job[q].in][uid[q]] = name[job[q].in][uid[q]]
        <5>1. PICK c \in Slots : c = job[q].in
          BY <1>1, <4>1, TakesFrom
        <5>2. uid[q] \in Slots /\ name[c][uid[q]] \in Fifos
          BY <1>1, <2>14, <4>1, <5>1, TakesOwn
        <5>3. name[c][uid[q]] # 0
          BY <5>2, ShmPipesAssumption DEF Fifos
        <5> QED
          BY <2>11, <2>14, <5>1, <5>2, <5>3
      <4> QED
        BY <1>2, <2>2, <2>6, <2>14, <4>1 DEF Kept, Taking
    <3>6. ASSUME NEW c \in Slots, NEW d \in Slots, name'[c][d] # 0
          PROVE  /\ By(c, d)' \in Procs
                 /\ For(c, d)' \in Procs /\ pc'[For(c, d)'] \in Living /\ uid[For(c, d)'] = d
                 /\ \A q \in reads[name'[c][d]] : q = For(c, d)' /\ fifofd[d][c] # NoFd
                 /\ fifofd[d][c] = NoFd => Due(c, d)'
      <4>1. CASE c = s /\ d = b
        <5>1. reads[f] = {}
          BY <2>10, <2>14 DEF Kept, Fresh
        <5>2. Due(c, d)'
          BY <1>4, <2>2, <2>6, <2>13, <4>1 DEF Due
        <5>3. pc'[x] \in Living
          BY <2>12, <2>14, <3>1, Places
        <5> QED
          BY <2>3, <2>12, <2>13, <2>14, <4>1, <5>1, <5>2, <5>3
      <4>2. CASE ~(c = s /\ d = b)
        <5>1. name[c][d] # 0
          BY <2>3, <3>6, <4>2
        <5>2. /\ name'[c][d] = name[c][d]
              /\ For(c, d)' = For(c, d) /\ By(c, d)' = By(c, d)
          BY <2>11, <2>14, <5>1
        <5>3. /\ By(c, d) \in Procs
              /\ For(c, d) \in Procs /\ pc[For(c, d)] \in Living /\ uid[For(c, d)] = d
              /\ \A q \in reads[name[c][d]] : q = For(c, d) /\ fifofd[d][c] # NoFd
              /\ fifofd[d][c] = NoFd => Due(c, d)
          BY <2>14, <5>1 DEF Kept, Named
        <5>4. Due(c, d) => Due(c, d)'
          BY <1>2, <2>2, <2>6, <5>2, <5>3 DEF Due
        <5> QED
          BY <3>1, <5>2, <5>3, <5>4
      <4> QED
        BY <4>1, <4>2
    <3>7. Named'
      BY <2>2, <3>6 DEF Named
    <3>8. Distinct'
      <4>1. ASSUME NEW c \in Slots, NEW d \in Slots, name'[c][d] # 0
            PROVE  IF c = s /\ d = b THEN name'[c][d] = f
                   ELSE name'[c][d] = name[c][d] /\ name[c][d] # f
        BY <2>3, <2>11, <2>14, <4>1
      <4> QED
        BY <2>14, <4>1 DEF Kept, Distinct
    <3>9. Fresh'
      BY <2>2, <2>5, <2>14, ShmPipesAssumption DEF Kept, Fresh
    <3>10. Recorded'
      <4>1. ASSUME NEW c \in Slots, NEW d \in Slots, fifofd[d][c] # NoFd
            PROVE  /\ name'[c][d] # 0 /\ name'[c][d] = name[c][d]
                   /\ fifofd[d][c] = Fd(For(c, d)', name[c][d])
                   /\ \/ For(c, d)' \in reads[name[c][d]]
                      \/ pc'[For(c, d)'] = "forget" /\ job'[For(c, d)'].in = c
        <5>1. /\ name[c][d] # 0
              /\ fifofd[d][c] = Fd(For(c, d), name[c][d])
              /\ \/ For(c, d) \in reads[name[c][d]]
                 \/ pc[For(c, d)] = "forget" /\ job[For(c, d)].in = c
          BY <2>14, <4>1 DEF Kept, Recorded
        <5>2. name'[c][d] = name[c][d] /\ For(c, d)' = For(c, d)
          BY <2>11, <2>14, <5>1
        <5>3. For(c, d) \in Procs
          BY <2>14, <5>1 DEF Kept, Named
        <5> QED
          BY <1>2, <2>6, <5>1, <5>2, <5>3
      <4> QED
        BY <2>2, <4>1 DEF Recorded
    <3>11. Cleared'
      <4>1. ASSUME NEW q \in Procs, pc'[q] \in Leaving
            PROVE  /\ \A c \in Slots : c < at[q] => name'[c][uid[q]] = 0
                   /\ pc'[q] = "remove" => fifofd[uid[q]][at[q]] = NoFd
        <5>1. q # p /\ pc'[q] = pc[q]
          BY <2>6, <4>1 DEF Leaving
        <5>2. /\ \A c \in Slots : c < at[q] => name[c][uid[q]] = 0
              /\ pc[q] = "remove" => fifofd[uid[q]][at[q]] = NoFd
          BY <2>14, <4>1, <5>1 DEF Kept, Cleared
        <5>3. uid[q] \in Slots
          BY <1>1, <4>1, <5>1, HasUid DEF Leaving, Living, Locations
        <5>4. uid[q] # b
          BY <2>4, <2>12, <2>14, <4>1, <5>1 DEF Kept, Owned
        <5> QED
          BY <2>3, <5>1, <5>2, <5>3, <5>4
      <4> QED
        BY <2>2, <4>1 DEF Cleared
    <3> QED
      BY <3>2, <3>3, <3>4, <3>5, <3>7, <3>8, <3>9, <3>10, <3>11 DEF Kept
  <2>15. ASSUME Kept, Awaited PROVE Awaited'
    <3>1. Alive'
      BY <2>6, <2>15 DEF Awaited, Alive
    <3>2. Unannounced'
      <4>1. ASSUME NEW q \in Procs, NEW c \in Slots, pc'[q] \in Sending,
                   job[q].out = c \/ (pc'[q] = "kill" /\ Symbol(q) = To(c))
            PROVE  name'[uid[q]][c] # 0 /\ ~pipe'[name'[uid[q]][c]].told
        <5>1. CASE uid[q] = s /\ c = b
          BY <2>3, <2>5, <2>10, <5>1
        <5>2. CASE ~(uid[q] = s /\ c = b)
          <6>1. pc[q] \in Sending /\ (pc'[q] = "kill" => pc[q] = "kill" \/ q = p)
            BY <1>2, <2>6, <4>1 DEF Sending
          <6>2. uid[q] \in Slots
            BY <1>1, <6>1, HasUid
          <6>3. job[q].out = c \/ (pc[q] = "kill" /\ Symbol(q) = To(c))
            BY <1>4, <4>1, <5>2, <6>1, SymbolsDiffer
          <6>4. name[uid[q]][c] # 0 /\ ~pipe[name[uid[q]][c]].told
            BY <2>15, <6>1, <6>3 DEF Awaited, Unannounced
          <6> QED
            BY <2>11, <2>15, <6>2, <6>4
        <5> QED
          BY <5>1, <5>2
      <4> QED
        BY <2>2, <2>6, <4>1 DEF Unannounced
    <3>3. Offered'
      <4>1. ASSUME NEW q \in Procs, NEW c \in Slots, From(c) \in Said(job[q].line)
            PROVE  name'[c][uid[q]] # 0 /\ pipe'[name'[c][uid[q]]].told
        <5>1. uid[q] \in Slots
          BY <1>1, <4>1, HasUid
        <5>2. name[c][uid[q]] # 0 /\ pipe[name[c][uid[q]]].told
          BY <2>15, <4>1 DEF Awaited, Offered
        <5> QED
          BY <2>11, <2>15, <5>1, <5>2
      <4> QED
        BY <2>2, <2>6, <4>1 DEF Offered
    <3>4. Opened'
      <4>1. ASSUME NEW q \in Procs, pc'[q] \in {"blocked", "read", "write"}, job[q].out # 0
            PROVE  /\ job[q].end = name'[uid[q]][job[q].out]
                   /\ (pc'[q] = "blocked") <=> (fifofd[job[q].out][uid[q]] = NoFd)
        <5>1. pc'[q] = pc[q] /\ pc[q] \in Sending
          BY <2>6, <4>1 DEF Sending
        <5>2. PICK c \in Slots : c = job[q].out
          <6>1. job[q].out \in 0..MaxSlot
            BY <1>1, JobParts
          <6> QED
            BY <4>1, <6>1, ShmPipesAssumption DEF Slots
        <5>3. uid[q] \in Slots
          BY <1>1, <5>1, HasUid
        <5>4. name[uid[q]][c] # 0
          BY <2>15, <5>1, <5>2 DEF Awaited, Unannounced
        <5>5. name'[uid[q]][c] = name[uid[q]][c]
          BY <2>11, <2>15, <5>3, <5>4
        <5> QED
          BY <2>15, <4>1, <5>1, <5>2, <5>5 DEF Awaited, Opened
      <4> QED
        BY <2>2, <2>6, <4>1 DEF Opened
    <3>5. Whole'
      <4>1. ASSUME NEW c \in Slots, NEW d \in Slots, name'[c][d] # 0, pipe'[name'[c][d]].told
            PROVE  \/ pipe'[name'[c][d]].state = "full"
                   \/ pc'[For(c, d)'] \in {"write", "forget", "unlink"} /\ job[For(c, d)'].in = c
        <5>1. ~(c = s /\ d = b)
          BY <2>3, <2>5, <4>1
        <5>2. name[c][d] # 0
          BY <2>3, <4>1, <5>1
        <5>3. /\ name'[c][d] = name[c][d] /\ For(c, d)' = For(c, d)
              /\ pipe'[name[c][d]] = pipe[name[c][d]]
          BY <2>11, <2>15, <5>2
        <5>4. PICK q \in Procs : q = For(c, d)
          BY <2>15, <5>2 DEF Kept, Named
        <5>5. \/ pipe[name[c][d]].state = "full"
              \/ pc[q] \in {"write", "forget", "unlink"} /\ job[q].in = c
          BY <2>15, <4>1, <5>2, <5>3, <5>4 DEF Awaited, Whole
        <5> QED
          BY <1>2, <2>6, <5>3, <5>4, <5>5
      <4> QED
        BY <2>1, <4>1 DEF Whole
    <3> QED
      BY <3>1, <3>2, <3>3, <3>4, <3>5 DEF Awaited
  <2>16. Alive' => Alive
    BY <1>2, <2>6, StaysAlive
  <2> QED
    BY <1>1, <2>2, <2>7, <2>9, <2>14, <2>15, <2>16, Layers
<1> QED
  BY <1>5, <1>6

(* The signal is sent to the user of the slot.  Under the manners that     *)
(* Kept assumes there is one; otherwise it reaches every process, and the  *)
(* commands among them do not survive it.                                  *)
LEMMA KillStep ==
    ASSUME IInv, NEW p \in Procs, Kill(p)
    PROVE  IInv'
<1>1. TypeOK /\ Shape /\ Fits(p) /\ job \in [Procs -> Jobs]
  BY DEF IInv, Shape, TypeOK
<1>2. /\ pc[p] = "kill" /\ ~pending[p] /\ hand[p] = 0
      /\ UNCHANGED <<uid, at, user, fifofd, name, pipe, hand, lines>>
      /\ manners' = manners /\ early' = early
  BY DEF Kill, At, records
<1>3. pc[p] \in Living /\ uid[p] \in Slots /\ pc[p] \in Sending /\ pc[p] \in Staying
  BY <1>1, <1>2, HasUid DEF Living, Locations, Sending, Staying, Leaving
<1> DEFINE b == Symbol(p).slot
           to == user[b]
           struck == {q \in Procs : to = NoProc /\ pc[q] \in {"read", "write"}}
           js == [q \in Procs |-> CASE q = p -> [job[q] EXCEPT !.out = b]
                                    [] q \in struck -> [job[q] EXCEPT !.end = 0, !.input = NoFd]
                                    [] OTHER -> job[q]]
<1>4. uid[p] \in Slots /\ b \in Slots /\ Symbol(p) = To(b)
  BY <1>1, <1>2, <1>3, SymbolSaid, SymbolForms DEF Fits
<1>5. to \in Procs \union {NoProc} /\ to = user[b]
  BY <1>1, <1>4 DEF TypeOK
<1>6. /\ struck \in SUBSET Procs
      /\ \A q \in struck : to = NoProc /\ pc[q] \in {"read", "write"}
  OBVIOUS
<1>7. /\ "apart" \in manners /\ to # NoProc => pc[to] # "unlink"
      /\ pending' = [q \in Procs |-> pending[q] \/ (pc[q] \in Living /\
                        IF to = NoProc THEN q # p ELSE q = to)]
      /\ Advance(p, TRUE, js)
      /\ reads' = [f \in Fifos |-> reads[f] \ {q \in struck : job[q].input = Fd(q, f)}]
  BY DEF Kill
<1>8. p \notin struck
  BY <1>2, <1>6
<1>9. /\ js \in [Procs -> Jobs]
      /\ js[p].line = job[p].line /\ js[p].out = b /\ js[p].end = job[p].end
      /\ js[p].in = job[p].in /\ js[p].input = job[p].input
      /\ \A q \in Procs : q # p =>
            /\ js[q].line = job[q].line /\ js[q].stage = job[q].stage
            /\ js[q].out = job[q].out /\ js[q].in = job[q].in
            /\ js[q] = job[q] \/ (js[q].end = 0 /\ js[q].input = NoFd)
            /\ q \notin struck => js[q] = job[q]
  <2>1. PICK x \in Jobs : x = job[p]
    BY <1>1
  <2>2. PICK y : y = [x EXCEPT !.out = b]
    OBVIOUS
  <2>3. /\ y \in Jobs /\ y.line = x.line /\ y.out = b /\ y.end = x.end
        /\ y.in = x.in /\ y.input = x.input
    BY <1>4, <2>2, JobOut
  <2>4. js[p] = y
    BY <1>8, <2>1, <2>2
  <2>5. ASSUME NEW q \in Procs, q # p
        PROVE  /\ js[q] \in Jobs /\ js[q].line = job[q].line /\ js[q].stage = job[q].stage
               /\ js[q].out = job[q].out /\ js[q].in = job[q].in
               /\ js[q] = job[q] \/ (js[q].end = 0 /\ js[q].input = NoFd)
               /\ q \notin struck => js[q] = job[q]
    <3>1. PICK u \in Jobs : u = job[q]
      BY <1>1
    <3>2. PICK v : v = [u EXCEPT !.end = 0, !.input = NoFd]
      OBVIOUS
    <3>3. /\ v \in Jobs /\ v.line = u.line /\ v.stage = u.stage /\ v.out = u.out /\ v.end = 0
          /\ v.in = u.in /\ v.input = NoFd
      BY <3>2, JobLost
    <3>4. CASE q \in struck
      <4>1. js[q] = v
        BY <2>5, <3>1, <3>2, <3>4
      <4> QED
        BY <3>1, <3>3, <3>4, <4>1
    <3>5. CASE q \notin struck
      <4>1. js[q] = u
        BY <2>5, <3>1, <3>5
      <4> QED
        BY <3>1, <4>1
    <3> QED
      BY <3>4, <3>5
  <2>6. js \in [Procs -> Jobs]
    <3>1. \A q \in Procs : js[q] \in Jobs
      BY <2>3, <2>4, <2>5
    <3> QED
      BY <3>1
  <2> HIDE DEF js
  <2> QED
    BY <2>1, <2>3, <2>4, <2>5, <2>6
<1> HIDE DEF b, to, struck, js
<1>10. /\ pc' \in [Procs -> Locations] /\ job' \in [Procs -> Jobs]
       /\ \A q \in Procs : q # p => pc'[q] = pc[q] /\ job'[q] = js[q]
       /\ pc'[p] \in {"symbol", "prompt", "clean", "open", "read"}
       /\ pc'[p] \in {"prompt", "clean"} => job'[p] = Idle
       /\ pc'[p] \notin {"prompt", "clean"} =>
             /\ job'[p].line = job[p].line /\ job'[p].out = b
             /\ job'[p].end = job[p].end /\ job'[p].in = job[p].in
             /\ job'[p].input = job[p].input
       /\ pc'[p] = "open" => b # 0
       /\ pc'[p] = "read" => b = 0
  <2>1. /\ pc' \in [Procs -> Locations] /\ job' \in [Procs -> Jobs]
        /\ \A q \in Procs : q # p => pc'[q] = pc[q] /\ job'[q] = js[q]
        /\ pc'[p] \in {"symbol", "prompt", "clean", "open", "read"}
        /\ pc'[p] \in {"prompt", "clean"} => job'[p] = Idle
        /\ pc'[p] \notin {"prompt", "clean"} =>
              /\ job'[p].line = js[p].line /\ job'[p].out = js[p].out
              /\ job'[p].end = js[p].end /\ job'[p].in = js[p].in
              /\ job'[p].input = js[p].input
        /\ pc'[p] = "open" => js[p].out # 0
        /\ pc'[p] = "read" => js[p].out = 0
    BY <1>1, <1>7, <1>9, AdvanceEffect
  <2> QED
    BY <1>9, <2>1
<1>11. b # 0
  BY <1>4, ShmPipesAssumption DEF Slots
<1>12. /\ pending' \in [Procs -> BOOLEAN] /\ reads' \in [Fifos -> SUBSET Procs]
       /\ \A q \in Procs : pc[q] \notin Living => pending'[q] = pending[q]
  <2>1. pending' \in [Procs -> BOOLEAN]
    BY <1>1, <1>7 DEF TypeOK
  <2>2. reads' \in [Fifos -> SUBSET Procs]
    BY <1>1, <1>7 DEF TypeOK
  <2>3. \A q \in Procs : pc[q] \notin Living => pending'[q] = pending[q]
    BY <1>1, <1>7 DEF TypeOK
  <2> QED
    BY <2>1, <2>2, <2>3
<1>13. TypeOK'
  BY <1>1, <1>2, <1>10, <1>12 DEF TypeOK
<1>14. Fits(p)'
  <2>1. CASE pc'[p] \in {"prompt", "clean"}
    BY <1>1, <1>2, <1>10, <2>1, IdleParts DEF Fits, Living, Locations, Leaving, Working, Sending
  <2>2. CASE pc'[p] \in {"symbol", "open"}
    <3>1. To(b) \in Said(job[p].line)
      BY <1>1, <1>4, SymbolSaid
    <3> QED
      BY <1>1, <1>2, <1>10, <1>11, <2>2, <3>1
         DEF Fits, Living, Locations, Leaving, Working, Sending
  <2> QED
    BY <1>10, <1>11, <2>1, <2>2
<1>15. ASSUME NEW q \in Procs, q # p PROVE Fits(q)'
  <2>1. Fits(q)
    BY <1>1 DEF Shape
  <2>2. /\ pc'[q] = pc[q] /\ job'[q] = js[q] /\ uid'[q] = uid[q] /\ at'[q] = at[q]
        /\ hand'[q] = hand[q]
    BY <1>2, <1>10, <1>15
  <2>3. pc[q] \notin Living => pending'[q] = pending[q]
    BY <1>12
  <2>4. Symbol(q)' = Symbol(q)
    BY <1>9, <1>10, <1>15 DEF Symbol
  <2>5. pc[q] \notin Working => js[q] = job[q]
    <3>1. pc[q] \notin Working => q \notin struck
      BY <1>6 DEF Working, Sending
    <3> QED
      BY <1>9, <1>15, <3>1
  <2> QED
    BY <1>9, <1>15, <2>1, <2>2, <2>3, <2>4, <2>5 DEF Fits
<1>16. Shape'
  BY <1>14, <1>15 DEF Shape
<1>17. ASSUME Polite, Apart, Kept
       PROVE  /\ to \in Procs /\ uid[to] = b /\ pc[to] \in Staying \ {"unlink"}
              /\ reads' = reads
              /\ \A q \in Procs : q # p => job'[q] = job[q] /\ Symbol(q)' = Symbol(q)
              /\ \A q \in Procs : pending'[q] = (pending[q] \/ q = to)
  <2>1. to \in Procs /\ uid[to] = b /\ pc[to] \in Staying
    BY <1>1, <1>2, <1>17, ReachedUser DEF b, to
  <2>2. to # NoProc
    BY <2>1, ShmPipesAssumption
  <2>3. struck = {}
    BY <1>6, <2>2
  <2>4. reads' = reads
    <3>1. \A f \in Fifos : reads[f] \ {q \in struck : job[q].input = Fd(q, f)} = reads[f]
      BY <2>3
    <3>2. reads' = [f \in Fifos |-> reads[f]]
      BY <1>7, <3>1
    <3> QED
      BY <1>1, <3>2 DEF TypeOK
  <2>5. \A q \in Procs : q # p => job'[q] = job[q] /\ Symbol(q)' = Symbol(q)
    BY <1>9, <1>10, <2>3 DEF Symbol
  <2>6. pc[to] \in Living
    BY <2>1 DEF Staying
  <2>7. \A q \in Procs : pending'[q] = (pending[q] \/ q = to)
    BY <1>7, <2>2, <2>6
  <2> QED
    BY <1>7, <1>17, <2>1, <2>2, <2>4, <2>5, <2>7 DEF Apart
<1>18. ASSUME Polite, Apart, Kept PROVE Kept'
  <2>1. \A q \in Procs : /\ (pc'[q] \in Staying) = (pc[q] \in Staying)
                         /\ (pc'[q] \in Leaving) = (pc[q] \in Leaving)
                         /\ (pc'[q] \in Living) = (pc[q] \in Living)
    BY <1>2, <1>10 DEF Staying, Living, Leaving, Locations
  <2>2. Owned'
    BY <1>1, <1>2, <1>18, <2>1, OwnedFrame DEF Kept
  <2>3. Calm'
    <3>1. ASSUME NEW q \in Procs, pc'[q] \in Leaving \union {"unlink"}
          PROVE  ~pending'[q] /\ hand[q] = 0
      <4>1. q # p /\ pc'[q] = pc[q]
        BY <1>10, <3>1 DEF Leaving
      <4>2. q # to
        BY <1>17, <1>18, <3>1, <4>1 DEF Staying
      <4> QED
        BY <1>17, <1>18, <3>1, <4>1, <4>2 DEF Kept, Calm
    <3> QED
      BY <1>2, <3>1 DEF Calm
  <2>4. Reached'
    <3>1. user[b] # NoProc
      BY <1>5, <1>17, <1>18, ShmPipesAssumption
    <3> QED
      BY <1>2, <1>10, <1>17, <1>18, <3>1, IdleParts DEF Kept, Reached
  <2>5. Taking'
    BY <1>2, <1>10, <1>17, <1>18, IdleParts DEF Kept, Taking
  <2>6. \A x, y \in Slots : For(x, y)' = For(x, y) /\ By(x, y)' = By(x, y)
    BY <1>2 DEF For, By
  <2>7. Named'
    <3>1. ASSUME NEW x \in Slots, NEW y \in Slots, name[x][y] # 0, Due(x, y),
                 By(x, y) \in Procs, For(x, y) \in Procs,
                 pc[For(x, y)] \in Living, uid[For(x, y)] = y
          PROVE  Due(x, y)'
      <4>1. PICK r \in Procs, q \in Procs : r = By(x, y) /\ q = For(x, y)
        BY <3>1
      <4>2. CASE pc[r] = "kill" /\ uid[r] = x /\ Symbol(r) = To(y) /\ r = p
        <5>1. y = b
          BY <1>4, <4>2, SymbolsDiffer
        <5>2. q = to
          <6>1. pc[to] \in Living
            BY <1>17, <1>18 DEF Staying
          <6> QED
            BY <1>17, <1>18, <3>1, <4>1, <5>1, <6>1, OneUid
        <5>3. pending'[q]
          BY <1>17, <1>18, <5>2
        <5> QED
          BY <2>6, <4>1, <5>3 DEF Due
      <4>3. CASE ~(pc[r] = "kill" /\ uid[r] = x /\ Symbol(r) = To(y) /\ r = p)
        <5>1. q = p => ~(pc[q] = "unlink" \/ pc[q] = "remove")
          BY <1>2
        <5> QED
          BY <1>2, <1>10, <1>17, <1>18, <2>6, <3>1, <4>1, <4>3, <5>1 DEF Due
      <4> QED
        BY <4>2, <4>3
    <3>2. ASSUME NEW x \in Slots, NEW y \in Slots, name[x][y] # 0
          PROVE  /\ By(x, y)' \in Procs
                 /\ For(x, y)' \in Procs /\ pc'[For(x, y)'] \in Living /\ uid[For(x, y)'] = y
                 /\ \A q \in reads[name[x][y]] : q = For(x, y)' /\ fifofd[y][x] # NoFd
                 /\ fifofd[y][x] = NoFd => Due(x, y)'
      <4>1. /\ By(x, y) \in Procs
            /\ For(x, y) \in Procs /\ pc[For(x, y)] \in Living /\ uid[For(x, y)] = y
            /\ \A q \in reads[name[x][y]] : q = For(x, y) /\ fifofd[y][x] # NoFd
            /\ fifofd[y][x] = NoFd => Due(x, y)
        BY <1>18, <3>2 DEF Kept, Named
      <4> QED
        BY <2>1, <2>6, <3>1, <3>2, <4>1
    <3> QED
      BY <1>2, <1>17, <1>18, <3>2 DEF Named
  <2>8. Distinct' /\ Fresh'
    BY <1>2, <1>17, <1>18 DEF Kept, Distinct, Fresh
  <2>9. Recorded'
    <3>1. \A q \in Procs : pc[q] = "forget" => pc'[q] = "forget" /\ job'[q] = job[q]
      BY <1>2, <1>10, <1>17, <1>18
    <3> QED
      BY <1>2, <1>17, <1>18, <2>6, <3>1 DEF Kept, Recorded, Named
  <2>10. Cleared'
    BY <1>2, <1>10, <1>18 DEF Kept, Cleared, Leaving
  <2> QED
    BY <2>2, <2>3, <2>4, <2>5, <2>7, <2>8, <2>9, <2>10 DEF Kept
<1>19. ASSUME Polite, Apart, Kept, Awaited PROVE Awaited'
  <2>1. Alive'
    BY <1>10, <1>19 DEF Awaited, Alive
  <2>2. Unannounced'
    <3>1. ASSUME NEW q \in Procs, NEW c \in Slots, pc'[q] \in Sending,
                 job'[q].out = c \/ (pc'[q] = "kill" /\ Symbol(q)' = To(c))
          PROVE  name[uid[q]][c] # 0 /\ ~pipe[name[uid[q]][c]].told
      <4>1. CASE q = p
        <5>1. c = b /\ pc[p] \in Sending
          BY <1>3, <1>10, <3>1, <4>1 DEF Sending
        <5> QED
          BY <1>2, <1>4, <1>19, <4>1, <5>1 DEF Awaited, Unannounced
      <4>2. CASE q # p
        BY <1>10, <1>17, <1>19, <3>1, <4>2 DEF Awaited, Unannounced
      <4> QED
        BY <4>1, <4>2
    <3> QED
      BY <1>2, <3>1 DEF Unannounced
  <2>3. Offered'
    <3>1. ASSUME NEW q \in Procs, NEW c \in Slots, From(c) \in Said(job'[q].line)
          PROVE  From(c) \in Said(job[q].line)
      <4>1. CASE q = p
        <5>1. job'[p] # Idle
          BY <3>1, <4>1, IdleParts, SymbolsDiffer
        <5>2. job'[p].line = job[p].line
          BY <1>10, <5>1
        <5> QED
          BY <3>1, <4>1, <5>2
      <4>2. CASE q # p
        BY <1>17, <1>19, <3>1, <4>2
      <4> QED
        BY <4>1, <4>2
    <3> QED
      BY <1>2, <1>19, <3>1 DEF Awaited, Offered
  <2>4. Opened'
    BY <1>2, <1>10, <1>11, <1>17, <1>19 DEF Awaited, Opened
  <2>5. Whole'
    <3>1. \A q \in Procs : pc[q] \in {"write", "forget", "unlink"} =>
              pc'[q] = pc[q] /\ job'[q] = job[q]
      BY <1>2, <1>10, <1>17, <1>19
    <3>2. \A x, y \in Slots : For(x, y)' = For(x, y)
      BY <1>2 DEF For
    <3> QED
      BY <1>2, <1>19, <3>1, <3>2 DEF Kept, Named, Awaited, Whole
  <2> QED
    BY <2>1, <2>2, <2>3, <2>4, <2>5 DEF Awaited
<1>20. Alive' => Alive
  BY <1>2, <1>10, StaysAlive
<1> QED
  BY <1>1, <1>2, <1>13, <1>16, <1>18, <1>19, <1>20, Layers

-----------------------------------------------------------------------------
(* Users come and go.                                                      *)

(* The newcomer takes a record that nobody has, and nobody is clearing.    *)
LEMMA ConnectStep ==
    ASSUME IInv, NEW p \in Procs, Connect(p)
    PROVE  IInv'
<1>1. TypeOK /\ Shape /\ Fits(p)
  BY DEF IInv, Shape
<1>2. PICK s \in Slots : /\ user[s] = NoProc
                         /\ user' = [user EXCEPT ![s] = p]
                         /\ uid' = [uid EXCEPT ![p] = s]
                         /\ early' = early \union
                               {t \in {s} : \E q \in Procs : pc[q] \in Leaving /\ uid[q] = t}
  <2> DEFINE free == {t \in Slots : user[t] = NoProc}
             s    == CHOOSE f \in free : \A g \in free : f <= g
  <2>1. /\ free # {}
        /\ user' = [user EXCEPT ![s] = p] /\ uid' = [uid EXCEPT ![p] = s]
        /\ early' = early \union
              {t \in {s} : \E q \in Procs : pc[q] \in Leaving /\ uid[q] = t}
    BY DEF Connect, Leaving
  <2>2. s \in free
    <3>1. free \subseteq Nat
      BY ShmPipesAssumption DEF Slots
    <3>2. \E f \in free : \A g \in free : f <= g
      BY <2>1, <3>1, LeastOf
    <3> HIDE DEF free
    <3> QED
      BY <3>2
  <2> QED
    BY <2>1, <2>2
<1>3. /\ pc[p] = "away" /\ pc' = [pc EXCEPT ![p] = "prompt"]
      /\ UNCHANGED <<at, job, fifofd, name, pipe, reads, pending, hand, lines>>
      /\ manners' = manners
  BY DEF Connect, Goto, files, signals
<1>4. /\ pc' \in [Procs -> Locations] /\ pc'[p] = "prompt"
      /\ uid' \in [Procs -> 0..MaxSlot] /\ uid'[p] = s
      /\ user' \in [Slots -> Procs \union {NoProc}] /\ user'[s] = p
      /\ \A q \in Procs : q # p => pc'[q] = pc[q] /\ uid'[q] = uid[q]
      /\ \A t \in Slots : t # s => user'[t] = user[t]
      /\ \A q \in Procs : job'[q] = job[q] /\ Symbol(q)' = Symbol(q)
  <2>1. s \in 0..MaxSlot
    BY ShmPipesAssumption DEF Slots
  <2> QED
    BY <1>1, <1>2, <1>3, <2>1 DEF TypeOK, Locations, Symbol
<1>5. TypeOK'
  <2>1. early' \subseteq Slots
    BY <1>1, <1>2 DEF TypeOK
  <2> QED
    BY <1>1, <1>3, <1>4, <2>1 DEF TypeOK
<1>6. job[p] = Idle
  BY <1>1, <1>3 DEF Fits, Working, Sending
<1>7. Fits(p)'
  BY <1>1, <1>3, <1>4, <1>6, IdleParts DEF Fits, Living, Locations, Leaving, Working, Sending
<1>8. Shape'
  BY <1>1, <1>3, <1>4, <1>7, FitsFrame DEF Shape
<1>9. pc[p] \notin Living /\ pc[p] # "dead" /\ "prompt" \in Staying /\ p # NoProc
  BY <1>3, ShmPipesAssumption DEF Living, Staying, Leaving, Locations
<1>10. \A x, y \in Slots : For(x, y)' = For(x, y) /\ By(x, y)' = By(x, y)
  BY <1>3 DEF For, By
<1>11. ASSUME Apart', Kept PROVE Kept'
  <2>1. \A q \in Procs : q # p => /\ (pc'[q] \in Staying) = (pc[q] \in Staying)
                                  /\ (pc'[q] \in Leaving) = (pc[q] \in Leaving)
                                  /\ (pc'[q] \in Living) = (pc[q] \in Living)
    BY <1>4
  <2>2. \A q \in Procs : pc[q] \in Living => pc[q] \in Staying \/ uid[q] # s
    <3>1. \A q \in Procs : pc[q] \in Leaving => uid[q] # s
      BY <1>2, <1>11 DEF Apart
    <3> QED
      BY <3>1 DEF Staying
  <2>3. \A q \in Procs : pc[q] \in Living => uid[q] # s /\ uid[q] \in Slots /\ q # p
    BY <1>1, <1>2, <1>9, <1>11, <2>2, HasUid, ShmPipesAssumption DEF Kept, Owned
  <2>4. Owned'
    <3>1. \A q \in Procs : pc'[q] \in Staying => user'[uid'[q]] = q
      BY <1>4, <1>11, <2>1, <2>3, Places DEF Kept, Owned
    <3>2. \A q \in Procs : pc'[q] \in Leaving => user'[uid'[q]] = NoProc
      <4>1. \A q \in Procs : pc'[q] \in Leaving => q # p /\ pc[q] \in Leaving
        BY <1>4, <1>9, <2>1, Places
      <4> QED
        BY <1>1, <1>4, <1>11, <2>3, <4>1, Places DEF Kept, Owned
    <3>3. ASSUME NEW t \in Slots, user'[t] # NoProc
          PROVE  uid'[user'[t]] = t /\ pc'[user'[t]] \in Staying
      <4>1. CASE t = s
        BY <1>4, <1>9, <4>1
      <4>2. CASE t # s
        <5>1. PICK r \in Procs : r = user[t] /\ uid[r] = t /\ pc[r] \in Staying
          <6>1. user[t] # NoProc
            BY <1>4, <3>3, <4>2
          <6>2. user[t] \in Procs
            BY <1>1, <6>1 DEF TypeOK
          <6> QED
            BY <1>11, <6>1, <6>2 DEF Kept, Owned
        <5>2. r # p
          BY <1>9, <5>1, Places
        <5> QED
          BY <1>4, <4>2, <5>1, <5>2
      <4> QED
        BY <4>1, <4>2
    <3>4. \A q, r \in Procs :
            pc'[q] \in Living /\ pc'[r] \in Living /\ uid'[q] = uid'[r] => q = r
      BY <1>4, <1>11, <2>1, <2>3 DEF Kept, Owned
    <3> QED
      BY <3>1, <3>2, <3>3, <3>4 DEF Owned
  <2>5. Calm'
    BY <1>3, <1>4, <1>11 DEF Kept, Calm, Leaving
  <2>6. Reached'
    <3>1. \A q \in Procs : pc[q] \in {"mknod", "kill"} => Symbol(q).slot \in Slots
      BY <1>1, SymbolSaid, SymbolForms DEF Shape, Fits
    <3>2. \A q \in Procs : job[q].out # 0 => job[q].out \in Slots
      BY <1>1, JobParts, ShmPipesAssumption DEF TypeOK, Slots
    <3>3. ASSUME NEW q \in Procs
          PROVE  /\ pc'[q] \in {"mknod", "kill"} => user'[Symbol(q).slot] # NoProc
                 /\ job[q].out # 0 => user'[job[q].out] # NoProc
      <4>1. pc'[q] \in {"mknod", "kill"} => pc[q] = pc'[q]
        BY <1>4
      <4> QED
        BY <1>2, <1>4, <1>9, <1>11, <3>1, <3>2, <4>1 DEF Kept, Reached
    <3> QED
      BY <1>4, <3>3 DEF Reached
  <2>7. Taking'
    BY <1>3, <1>4, <1>6, <1>11, IdleParts DEF Kept, Taking
  <2>8. ASSUME NEW x \in Slots, NEW y \in Slots, name[x][y] # 0
        PROVE  /\ By(x, y)' \in Procs
               /\ For(x, y)' \in Procs /\ pc'[For(x, y)'] \in Living /\ uid'[For(x, y)'] = y
               /\ \A q \in reads[name[x][y]] : q = For(x, y)' /\ fifofd[y][x] # NoFd
               /\ fifofd[y][x] = NoFd => Due(x, y)'
    <3>1. /\ By(x, y) \in Procs
          /\ For(x, y) \in Procs /\ pc[For(x, y)] \in Living /\ uid[For(x, y)] = y
          /\ \A q \in reads[name[x][y]] : q = For(x, y) /\ fifofd[y][x] # NoFd
          /\ fifofd[y][x] = NoFd => Due(x, y)
      BY <1>11, <2>8 DEF Kept, Named
    <3>2. PICK q \in Procs, r \in Procs : q = For(x, y) /\ r = By(x, y)
      BY <3>1
    <3>3. q # p
      BY <1>9, <3>1, <3>2
    <3>4. Due(x, y) => Due(x, y)'
      BY <1>3, <1>4, <1>10, <3>2, <3>3 DEF Due
    <3> QED
      BY <1>4, <1>10, <3>1, <3>2, <3>3, <3>4
  <2>9. Named'
    BY <1>3, <2>8 DEF Named
  <2>10. Distinct' /\ Fresh'
    BY <1>3, <1>11 DEF Kept, Distinct, Fresh
  <2>11. Recorded'
    <3>1. \A q \in Procs : pc[q] = "forget" => pc'[q] = "forget"
      BY <1>3, <1>4
    <3> QED
      BY <1>3, <1>4, <1>10, <1>11, <3>1 DEF Kept, Recorded, Named
  <2>12. Cleared'
    BY <1>3, <1>4, <1>9, <1>11, Places DEF Kept, Cleared
  <2> QED
    BY <2>4, <2>5, <2>6, <2>7, <2>9, <2>10, <2>11, <2>12 DEF Kept
<1>12. ASSUME Kept, Awaited PROVE Awaited'
  <2>1. Alive'
    BY <1>4, <1>12 DEF Awaited, Alive
  <2>2. Unannounced'
    BY <1>3, <1>4, <1>12 DEF Awaited, Unannounced, Sending
  <2>3. Offered'
    <3>1. ASSUME NEW q \in Procs, NEW a \in Slots, From(a) \in Said(job[q].line)
          PROVE  name[a][uid'[q]] # 0 /\ pipe[name[a][uid'[q]]].told
      <4>1. q # p
        BY <1>6, <3>1, IdleParts, SymbolsDiffer
      <4> QED
        BY <1>4, <1>12, <3>1, <4>1 DEF Awaited, Offered
    <3> QED
      BY <1>3, <3>1 DEF Offered
  <2>4. Opened'
    BY <1>3, <1>4, <1>12 DEF Awaited, Opened
  <2>5. Whole'
    <3>1. \A q \in Procs : pc[q] \in {"write", "forget", "unlink"} => pc'[q] = pc[q]
      BY <1>3, <1>4
    <3> QED
      BY <1>3, <1>4, <1>10, <1>12, <3>1 DEF Kept, Named, Awaited, Whole
  <2> QED
    BY <2>1, <2>2, <2>3, <2>4, <2>5 DEF Awaited
<1>13. Alive' => Alive
  BY <1>4, <1>9, StaysAlive
<1>14. early' = {} => early = {}
  BY <1>2
<1> QED
  BY <1>1, <1>3, <1>5, <1>8, <1>11, <1>12, <1>13, <1>14, Layers

(* A user gives his record up, and nobody is piping to him.                *)
LEMMA LeaveStep ==
    ASSUME IInv, NEW p \in Procs, Leave(p)
    PROVE  IInv'
<1>1. TypeOK /\ Shape /\ Fits(p)
  BY DEF IInv, Shape
<1>2. /\ pc[p] = "clean" /\ ~pending[p] /\ hand[p] = 0
      /\ pc' = [pc EXCEPT ![p] = "drop"]
      /\ Polite => \A q \in Procs : To(uid[p]) \notin Said(job[q].line)
      /\ UNCHANGED <<uid, at, job, fifofd, name, pipe, reads, pending, hand, lines>>
      /\ manners' = manners /\ early' = early
  BY DEF Leave, At, Goto, files, signals, Polite, Said
<1>3. PICK s \in Slots : s = uid[p]
  BY <1>1, <1>2 DEF Fits
<1>4. user' = [user EXCEPT ![s] = NoProc]
  BY <1>3 DEF Leave
<1>5. /\ pc' \in [Procs -> Locations] /\ pc'[p] = "drop"
      /\ user' \in [Slots -> Procs \union {NoProc}] /\ user'[s] = NoProc
      /\ \A q \in Procs : q # p => pc'[q] = pc[q]
      /\ \A t \in Slots : t # s => user'[t] = user[t]
      /\ \A q \in Procs : job'[q] = job[q] /\ Symbol(q)' = Symbol(q)
  BY <1>1, <1>2, <1>4 DEF TypeOK, Locations, Symbol
<1>6. TypeOK'
  BY <1>1, <1>2, <1>5 DEF TypeOK
<1>7. Fits(p)'
  BY <1>1, <1>2, <1>5 DEF Fits, Living, Locations, Leaving, Working, Sending
<1>8. Shape'
  BY <1>1, <1>2, <1>5, <1>7, FitsFrame DEF Shape
<1>9. /\ pc[p] \in Staying /\ pc[p] \in Living /\ pc[p] # "dead" /\ p # NoProc
      /\ pc'[p] \notin Staying /\ pc'[p] \in Living /\ pc'[p] \in Leaving
  BY <1>2, <1>5, ShmPipesAssumption DEF Living, Staying, Leaving, Locations
<1>10. \A x, y \in Slots : For(x, y)' = For(x, y) /\ By(x, y)' = By(x, y)
  BY <1>2 DEF For, By
<1>11. ASSUME Polite, Kept PROVE Kept'
  <2>1. \A q \in Procs : q # p /\ pc[q] \in Living => uid[q] # s /\ uid[q] \in Slots
    BY <1>1, <1>3, <1>9, <1>11, HasUid, OneUid
  <2>2. Owned'
    <3>1. \A q \in Procs : pc'[q] \in Staying => user'[uid[q]] = q
      BY <1>5, <1>9, <1>11, <2>1, Places DEF Kept, Owned
    <3>2. \A q \in Procs : pc'[q] \in Leaving => user'[uid[q]] = NoProc
      BY <1>3, <1>5, <1>11, <2>1, Places DEF Kept, Owned
    <3>3. ASSUME NEW t \in Slots, user'[t] # NoProc
          PROVE  uid[user'[t]] = t /\ pc'[user'[t]] \in Staying
      <4>1. t # s /\ user'[t] = user[t]
        BY <1>5, <3>3
      <4>2. PICK r \in Procs : r = user[t] /\ uid[r] = t /\ pc[r] \in Staying
        <5>1. user[t] \in Procs
          BY <1>1, <3>3, <4>1 DEF TypeOK
        <5> QED
          BY <1>11, <3>3, <4>1, <5>1 DEF Kept, Owned
      <4>3. r # p
        BY <1>3, <4>1, <4>2
      <4> QED
        BY <1>5, <4>1, <4>2, <4>3
    <3>4. \A q, r \in Procs :
            pc'[q] \in Living /\ pc'[r] \in Living /\ uid[q] = uid[r] => q = r
      BY <1>5, <1>9, <1>11 DEF Kept, Owned
    <3> QED
      BY <1>2, <3>1, <3>2, <3>3, <3>4 DEF Owned
  <2>3. Calm'
    BY <1>2, <1>5, <1>11 DEF Kept, Calm
  <2>4. Reached'
    <3>1. \A q \in Procs : pc[q] \in {"mknod", "kill"} =>
             Symbol(q).slot \in Slots /\ To(Symbol(q).slot) \in Said(job[q].line)
      BY <1>1, SymbolSaid, SymbolForms DEF Shape, Fits
    <3>2. \A q \in Procs : job[q].out # 0 =>
             job[q].out \in Slots /\ To(job[q].out) \in Said(job[q].line)
      BY <1>1, JobParts, ShmPipesAssumption DEF TypeOK, Slots, Shape, Fits
    <3>3. \A q \in Procs : To(s) \notin Said(job[q].line)
      BY <1>2, <1>3, <1>11
    <3>4. ASSUME NEW q \in Procs
          PROVE  /\ pc'[q] \in {"mknod", "kill"} => user'[Symbol(q).slot] # NoProc
                 /\ job[q].out # 0 => user'[job[q].out] # NoProc
      <4>1. pc'[q] \in {"mknod", "kill"} => pc[q] = pc'[q]
        BY <1>5
      <4>2. pc[q] \in {"mknod", "kill"} => Symbol(q).slot # s
        BY <3>1, <3>3
      <4>3. job[q].out # 0 => job[q].out # s
        BY <3>2, <3>3
      <4> QED
        BY <1>5, <1>11, <3>1, <3>2, <4>1, <4>2, <4>3 DEF Kept, Reached
    <3> QED
      BY <1>5, <3>4 DEF Reached
  <2>5. Taking'
    BY <1>2, <1>5, <1>11 DEF Kept, Taking
  <2>6. ASSUME NEW x \in Slots, NEW y \in Slots, name[x][y] # 0
        PROVE  /\ By(x, y)' \in Procs
               /\ For(x, y)' \in Procs /\ pc'[For(x, y)'] \in Living /\ uid[For(x, y)'] = y
               /\ \A q \in reads[name[x][y]] : q = For(x, y)' /\ fifofd[y][x] # NoFd
               /\ fifofd[y][x] = NoFd => Due(x, y)'
    <3>1. /\ By(x, y) \in Procs
          /\ For(x, y) \in Procs /\ pc[For(x, y)] \in Living /\ uid[For(x, y)] = y
          /\ \A q \in reads[name[x][y]] : q = For(x, y) /\ fifofd[y][x] # NoFd
          /\ fifofd[y][x] = NoFd => Due(x, y)
      BY <1>11, <2>6 DEF Kept, Named
    <3>2. PICK q \in Procs, r \in Procs : q = For(x, y) /\ r = By(x, y)
      BY <3>1
    <3>3. Due(x, y) => Due(x, y)'
      BY <1>2, <1>5, <1>10, <3>2 DEF Due
    <3> QED
      BY <1>5, <1>9, <1>10, <3>1, <3>2, <3>3
  <2>7. Named'
    BY <1>2, <2>6 DEF Named
  <2>8. Distinct' /\ Fresh'
    BY <1>2, <1>11 DEF Kept, Distinct, Fresh
  <2>9. Recorded'
    <3>1. \A q \in Procs : pc[q] = "forget" => pc'[q] = "forget"
      BY <1>2, <1>5
    <3> QED
      BY <1>2, <1>5, <1>10, <1>11, <3>1 DEF Kept, Recorded, Named
  <2>10. Cleared'
    <3>1. at[p] = 1
      BY <1>1, <1>2 DEF Fits, Leaving
    <3>2. \A a \in Slots : ~(a < at[p])
      BY <3>1, ShmPipesAssumption DEF Slots
    <3> QED
      BY <1>2, <1>5, <1>11, <3>2 DEF Kept, Cleared
  <2> QED
    BY <2>2, <2>3, <2>4, <2>5, <2>7, <2>8, <2>9, <2>10 DEF Kept
<1>12. ASSUME Kept, Awaited PROVE Awaited'
  <2>1. Alive'
    BY <1>5, <1>12 DEF Awaited, Alive
  <2>2. Unannounced'
    BY <1>2, <1>5, <1>12 DEF Awaited, Unannounced, Sending
  <2>3. Offered'
    BY <1>2, <1>12 DEF Awaited, Offered
  <2>4. Opened'
    BY <1>2, <1>5, <1>12 DEF Awaited, Opened
  <2>5. Whole'
    <3>1. \A q \in Procs : pc[q] \in {"write", "forget", "unlink"} => pc'[q] = pc[q]
      BY <1>2, <1>5
    <3> QED
      BY <1>2, <1>10, <1>12, <3>1 DEF Kept, Named, Awaited, Whole
  <2> QED
    BY <2>1, <2>2, <2>3, <2>4, <2>5 DEF Awaited
<1>13. Alive' => Alive
  BY <1>5, <1>9, StaysAlive
<1> QED
  BY <1>1, <1>2, <1>6, <1>8, <1>11, <1>12, <1>13, Layers

-----------------------------------------------------------------------------
(* A process that leaves goes through its record.                          *)

(* Nobody pipes to the record of one who leaves.                           *)
LEMMA NoneTo ==
    ASSUME TypeOK, Shape, Kept, NEW p \in Procs, pc[p] \in Leaving, NEW q \in Procs
    PROVE  /\ job[q].out # uid[p]
           /\ ~(pc[q] = "kill" /\ Symbol(q) = To(uid[p]))
           /\ job[q].in # 0 \/ pc[q] \in Working => uid[q] # uid[p]
<1>1. user[uid[p]] = NoProc
  BY DEF Kept, Owned
<1>2. uid[p] \in Slots /\ uid[p] # 0 /\ pc[p] \in Living
  BY HasUid, Places, ShmPipesAssumption DEF Slots
<1>3. job[q].out # uid[p]
  BY <1>1, <1>2 DEF Kept, Reached
<1>4. ~(pc[q] = "kill" /\ Symbol(q) = To(uid[p]))
  BY <1>1, <1>2, SymbolsDiffer DEF Kept, Reached
<1>5. ASSUME job[q].in # 0 \/ pc[q] \in Working, uid[q] = uid[p] PROVE FALSE
  <2>1. pc[q] \in Working
    <3>1. Fits(q)
      BY DEF Shape
    <3> QED
      BY <1>5, <3>1, IdleParts DEF Fits
  <2>2. q = p
    BY <1>2, <1>5, <2>1, HasUid, OneUid
  <2> QED
    BY <2>1, <2>2, Places
<1> QED
  BY <1>3, <1>4, <1>5

(* The FIFO of a record that is being cleared and does not know it.        *)
LEMMA NothingLeft ==
    ASSUME TypeOK, Shape, Kept, NEW p \in Procs, pc[p] = "drop",
           NEW s \in Slots, s = uid[p], NEW a \in Slots
    PROVE  /\ fifofd[s][a] = NoFd => name[a][s] = 0
           /\ fifofd[s][a] # NoFd => /\ For(a, s) = p /\ name[a][s] \in Fifos
                                     /\ fifofd[s][a] = Fd(p, name[a][s])
<1>1. pc[p] \in Living /\ ~pending[p] /\ hand[p] = 0 /\ pc[p] \in Leaving
  BY HasUid, Places DEF Kept, Calm, Leaving
<1>2. name[a][s] # 0 => For(a, s) = p
  <2>1. ASSUME name[a][s] # 0
        PROVE  For(a, s) \in Procs /\ pc[For(a, s)] \in Living /\ uid[For(a, s)] = s
    BY <2>1 DEF Kept, Named
  <2> QED
    BY <1>1, <2>1, OneUid
<1>3. ASSUME fifofd[s][a] = NoFd, name[a][s] # 0 PROVE FALSE
  <2>1. Due(a, s) /\ By(a, s) \in Procs
    BY <1>3 DEF Kept, Named
  <2>2. PICK r \in Procs : r = By(a, s)
    BY <2>1
  <2>3. ~(pc[r] = "kill" /\ Symbol(r) = To(s))
    BY <1>1, NoneTo
  <2>4. 0 \notin 1..a
    BY ShmPipesAssumption DEF Slots
  <2> QED
    BY <1>1, <1>2, <1>3, <2>1, <2>2, <2>3, <2>4 DEF Due
<1>4. ASSUME fifofd[s][a] # NoFd
      PROVE  name[a][s] # 0 /\ fifofd[s][a] = Fd(For(a, s), name[a][s])
  BY <1>4 DEF Kept, Recorded
<1> QED
  BY <1>2, <1>3, <1>4, NameTyped

(* A descriptor of the record is closed; its FIFO, if any, is next.        *)
LEMMA DropStep ==
    ASSUME IInv, NEW p \in Procs, Drop(p)
    PROVE  IInv'
<1>1. TypeOK /\ Shape /\ Fits(p)
  BY DEF IInv, Shape
<1>2. /\ pc[p] = "drop" /\ ~pending[p] /\ hand[p] = 0 /\ at[p] <= MaxSlot
      /\ UNCHANGED <<uid, job, user, name, pipe, pending, hand, lines>>
      /\ manners' = manners /\ early' = early
  BY DEF Drop, At, signals
<1>3. PICK s \in Slots, a \in Slots : s = uid[p] /\ a = at[p]
  <2>1. uid[p] \in Slots /\ at[p] \in 1..MaxSlot + 1
    BY <1>1, <1>2 DEF Fits, TypeOK
  <2> QED
    BY <1>2, <2>1, ShmPipesAssumption DEF Slots
<1>4. PICK fd \in Fds : fd = fifofd[s][a]
  BY <1>1 DEF TypeOK
<1>5. fifofd' = Put(fifofd, s, a, NoFd)
  BY <1>3 DEF Drop, Put
<1>6. /\ fifofd' \in [Slots -> [Slots -> Fds]]
      /\ fifofd'[s][a] = NoFd
      /\ \A t, c \in Slots : t # s \/ c # a => fifofd'[t][c] = fifofd[t][c]
  <2>1. NoFd \in Fds
    BY FdParts
  <2> QED
    BY <1>1, <1>5, <2>1, RecordsPut
<1>7. PICK l \in {"remove", "drop"}, k \in 1..MaxSlot + 1 :
        /\ pc' = [pc EXCEPT ![p] = l] /\ at' = [at EXCEPT ![p] = k]
        /\ fd # NoFd => l = "remove" /\ k = a
        /\ fd = NoFd => l = "drop" /\ k = a + 1
  <2>1. a \in 1..MaxSlot + 1 /\ a + 1 \in 1..MaxSlot + 1
    BY ShmPipesAssumption DEF Slots
  <2>2. CASE fd # NoFd
    <3>1. pc' = [pc EXCEPT ![p] = "remove"] /\ at' = at
      BY <1>3, <1>4, <2>2 DEF Drop, Goto
    <3>2. at' = [at EXCEPT ![p] = a]
      BY <1>1, <1>3, <3>1 DEF TypeOK
    <3> QED
      BY <2>1, <2>2, <3>1, <3>2
  <2>3. CASE fd = NoFd
    <3>1. at' = [at EXCEPT ![p] = a + 1] /\ pc' = pc
      BY <1>3, <1>4, <2>3 DEF Drop
    <3>2. pc' = [pc EXCEPT ![p] = "drop"]
      BY <1>1, <1>2, <3>1 DEF TypeOK
    <3> QED
      BY <2>1, <2>3, <3>1, <3>2
  <2> QED
    BY <2>2, <2>3
<1>8. /\ pc' \in [Procs -> Locations] /\ pc'[p] = l
      /\ at' \in [Procs -> 1..MaxSlot + 1] /\ at'[p] = k
      /\ \A q \in Procs : q # p => pc'[q] = pc[q] /\ at'[q] = at[q]
      /\ \A q \in Procs : job'[q] = job[q] /\ Symbol(q)' = Symbol(q)
  <2>1. l \in Locations
    BY DEF Locations
  <2> QED
    BY <1>1, <1>2, <1>7, <2>1 DEF TypeOK, Symbol
<1>9. /\ reads' \in [Fifos -> SUBSET Procs]
      /\ fd.by = p \/ fd = NoFd =>
            \A f \in Fifos : reads'[f] = IF fd.by = p /\ f = fd.fifo THEN reads[f] \ {p}
                                         ELSE reads[f]
  <2>1. Closes(p, fd)
    BY <1>3, <1>4 DEF Drop
  <2> QED
    BY <1>1, <2>1, ClosesEffect
<1>10. TypeOK'
  BY <1>1, <1>2, <1>6, <1>8, <1>9 DEF TypeOK
<1>11. Fits(p)'
  <2>1. l = "remove" => k <= MaxSlot
    BY <1>2, <1>3, <1>7
  <2> QED
    BY <1>1, <1>2, <1>7, <1>8, <2>1 DEF Fits, Living, Locations, Leaving, Working, Sending
<1>12. Shape'
  BY <1>1, <1>2, <1>8, <1>11, FitsFrame DEF Shape
<1>13. \A x, y \in Slots : For(x, y)' = For(x, y) /\ By(x, y)' = By(x, y)
  BY <1>2 DEF For, By
<1>14. pc[p] \in Leaving /\ pc[p] \in Living /\ l \in Leaving
  BY <1>2, Places DEF Leaving
<1>15. ASSUME Kept PROVE Kept'
  <2>1. \A q \in Procs : /\ (pc'[q] \in Staying) = (pc[q] \in Staying)
                         /\ (pc'[q] \in Leaving) = (pc[q] \in Leaving)
                         /\ (pc'[q] \in Living) = (pc[q] \in Living)
    BY <1>8, <1>14, Places
  <2>2. Owned'
    BY <1>1, <1>2, <1>15, <2>1, OwnedFrame DEF Kept
  <2>3. Calm'
    BY <1>2, <1>8, <1>15 DEF Kept, Calm, Leaving
  <2>4. Reached'
    BY <1>2, <1>7, <1>8, <1>15 DEF Kept, Reached
  <2>5. /\ fd = NoFd => name[a][s] = 0
        /\ fd # NoFd => For(a, s) = p /\ name[a][s] \in Fifos /\ fd = Fd(p, name[a][s])
    BY <1>1, <1>2, <1>3, <1>4, <1>15, NothingLeft
  <2>0. \A f \in Fifos : reads'[f] = IF fd.by = p /\ f = fd.fifo THEN reads[f] \ {p} ELSE reads[f]
    BY <1>9, <2>5, FdParts
  <2>6. \A f \in Fifos : reads'[f] \subseteq reads[f]
    BY <2>0
  <2>7. Taking'
    <3>1. ASSUME NEW q \in Procs, job[q].in # 0
          PROVE  /\ q # p /\ fifofd'[uid[q]][job[q].in] = fifofd[uid[q]][job[q].in]
                 /\ pc[q] = "forget" => q \notin reads'[name[job[q].in][uid[q]]]
      <4>1. uid[q] \in Slots /\ job[q].in \in Slots
        BY <1>1, <3>1, HasUid, TakesFrom
      <4>2. uid[q] # s
        BY <1>1, <1>3, <1>14, <1>15, <3>1, NoneTo
      <4>3. ASSUME pc[q] = "forget" PROVE q \notin reads'[name[job[q].in][uid[q]]]
        <5>1. PICK c \in Slots : c = job[q].in
          BY <4>1
        <5>2. name[c][uid[q]] \in Fifos
          BY <1>1, <1>15, <3>1, <4>3, <5>1, TakesOwn
        <5>3. q \notin reads[name[c][uid[q]]]
          BY <1>15, <3>1, <4>3, <5>1 DEF Kept, Taking
        <5> QED
          BY <2>6, <5>1, <5>2, <5>3
      <4> QED
        BY <1>3, <1>6, <4>1, <4>2, <4>3
    <3> QED
      BY <1>2, <1>8, <1>15, <3>1 DEF Kept, Taking
  <2>8. ASSUME NEW x \in Slots, NEW y \in Slots, name[x][y] # 0
        PROVE  /\ By(x, y)' \in Procs
               /\ For(x, y)' \in Procs /\ pc'[For(x, y)'] \in Living /\ uid[For(x, y)'] = y
               /\ \A q \in reads'[name[x][y]] : q = For(x, y)' /\ fifofd'[y][x] # NoFd
               /\ fifofd'[y][x] = NoFd => Due(x, y)'
    <3>1. /\ By(x, y) \in Procs
          /\ For(x, y) \in Procs /\ pc[For(x, y)] \in Living /\ uid[For(x, y)] = y
          /\ \A q \in reads[name[x][y]] : q = For(x, y) /\ fifofd[y][x] # NoFd
          /\ fifofd[y][x] = NoFd => Due(x, y)
      BY <1>15, <2>8 DEF Kept, Named
    <3>2. name[x][y] \in Fifos
      BY <1>1, <2>8, NameTyped
    <3>3. CASE x = a /\ y = s
      <4>1. For(x, y) = p /\ fd = Fd(p, name[x][y]) /\ fd # NoFd
        BY <2>5, <2>8, <3>3
      <4>2. reads'[name[x][y]] = {}
        <5>1. PICK f \in Fifos : f = name[x][y] /\ fd = Fd(p, f)
          BY <3>2, <4>1
        <5>2. fd.by = p /\ fd.fifo = f
          BY <5>1 DEF Fd
        <5>3. reads'[f] = reads[f] \ {p}
          BY <2>0, <5>2
        <5> QED
          BY <3>1, <4>1, <5>1, <5>3
      <4>3. Due(x, y)'
        BY <1>7, <1>8, <1>13, <3>3, <4>1 DEF Due
      <4> QED
        BY <1>2, <1>13, <2>1, <3>1, <4>2, <4>3
    <3>4. CASE ~(x = a /\ y = s)
      <4>1. fifofd'[y][x] = fifofd[y][x]
        BY <1>6, <3>4
      <4>2. PICK q \in Procs, r \in Procs : q = For(x, y) /\ r = By(x, y)
        BY <3>1
      <4>3. Due(x, y) => Due(x, y)'
        BY <1>2, <1>8, <1>13, <4>2 DEF Due
      <4> QED
        BY <1>2, <1>13, <2>1, <2>6, <3>1, <3>2, <4>1, <4>3
    <3> QED
      BY <3>3, <3>4
  <2>9. Named'
    BY <1>2, <2>8 DEF Named
  <2>10. Distinct'
    BY <1>2, <1>15 DEF Kept, Distinct
  <2>11. Fresh'
    BY <1>2, <1>15, <2>6 DEF Kept, Fresh
  <2>12. Recorded'
    <3>1. ASSUME NEW x \in Slots, NEW y \in Slots, fifofd'[y][x] # NoFd
          PROVE  /\ name[x][y] # 0
                 /\ fifofd'[y][x] = Fd(For(x, y), name[x][y])
                 /\ \/ For(x, y) \in reads'[name[x][y]]
                    \/ pc'[For(x, y)] = "forget" /\ job[For(x, y)].in = x
      <4>1. fifofd'[y][x] = fifofd[y][x] /\ ~(x = a /\ y = s)
        BY <1>6, <3>1
      <4>2. /\ name[x][y] # 0
            /\ fifofd[y][x] = Fd(For(x, y), name[x][y])
            /\ \/ For(x, y) \in reads[name[x][y]]
               \/ pc[For(x, y)] = "forget" /\ job[For(x, y)].in = x
        BY <1>15, <3>1, <4>1 DEF Kept, Recorded
      <4>3. PICK q \in Procs : q = For(x, y)
        BY <1>15, <4>2 DEF Kept, Named
      <4>4. CASE pc[q] = "forget" /\ job[q].in = x
        BY <1>2, <1>8, <4>1, <4>2, <4>3, <4>4
      <4>5. CASE q \in reads[name[x][y]]
        <5>1. ~(fd.by = p /\ name[x][y] = fd.fifo)
          <6>1. fd.by = p => fd # NoFd
            BY FdParts
          <6>2. fd # NoFd => fd.fifo = name[a][s] /\ name[a][s] # 0
            BY <2>5, FdParts, ShmPipesAssumption DEF Fifos
          <6> QED
            BY <1>15, <4>1, <4>2, <6>1, <6>2 DEF Kept, Distinct
        <5>2. reads'[name[x][y]] = reads[name[x][y]]
          BY <1>1, <2>0, <4>2, <5>1, NameTyped
        <5> QED
          BY <4>1, <4>2, <4>3, <4>5, <5>2
      <4> QED
        BY <4>2, <4>3, <4>4, <4>5
    <3> QED
      BY <1>2, <1>13, <3>1 DEF Recorded
  <2>13. Cleared'
    <3>1. \A x \in Slots : x < k => name[x][s] = 0
      <4>1. CASE fd = NoFd
        <5>1. \A x \in Slots : x < k => x < a \/ x = a
          BY <1>7, <4>1, ShmPipesAssumption DEF Slots
        <5>2. \A x \in Slots : x < a => name[x][s] = 0
          BY <1>3, <1>14, <1>15 DEF Kept, Cleared
        <5> QED
          BY <2>5, <4>1, <5>1, <5>2
      <4>2. CASE fd # NoFd
        BY <1>3, <1>7, <1>14, <1>15, <4>2 DEF Kept, Cleared
      <4> QED
        BY <4>1, <4>2
    <3>2. l = "remove" => fifofd'[s][k] = NoFd
      BY <1>6, <1>7
    <3>3. ASSUME NEW q \in Procs, q # p, pc[q] \in Leaving
          PROVE  /\ \A x \in Slots : x < at[q] => name[x][uid[q]] = 0
                 /\ pc[q] = "remove" => fifofd'[uid[q]][at[q]] = NoFd
      <4>1. /\ \A x \in Slots : x < at[q] => name[x][uid[q]] = 0
            /\ pc[q] = "remove" => fifofd[uid[q]][at[q]] = NoFd
        BY <1>15, <3>3 DEF Kept, Cleared
      <4>2. uid[q] # s /\ uid[q] \in Slots
        BY <1>1, <1>3, <1>14, <1>15, <3>3, HasUid, OneUid, Places
      <4>3. pc[q] = "remove" => at[q] \in Slots
        BY <1>1, ShmPipesAssumption DEF Shape, Fits, TypeOK, Slots
      <4> QED
        BY <1>6, <4>1, <4>2, <4>3
    <3> QED
      BY <1>2, <1>3, <1>8, <3>1, <3>2, <3>3 DEF Cleared
  <2> QED
    BY <2>2, <2>3, <2>4, <2>7, <2>9, <2>10, <2>11, <2>12, <2>13 DEF Kept
<1>16. ASSUME Kept, Awaited PROVE Awaited'
  <2>1. Alive'
    BY <1>7, <1>8, <1>16 DEF Awaited, Alive
  <2>2. Unannounced'
    BY <1>2, <1>7, <1>8, <1>16 DEF Awaited, Unannounced, Sending
  <2>3. Offered'
    BY <1>2, <1>16 DEF Awaited, Offered
  <2>4. Opened'
    <3>1. ASSUME NEW q \in Procs, pc'[q] \in {"blocked", "read", "write"}, job[q].out # 0
          PROVE  /\ job[q].end = name[uid[q]][job[q].out]
                 /\ (pc'[q] = "blocked") <=> (fifofd'[job[q].out][uid[q]] = NoFd)
      <4>1. pc'[q] = pc[q] /\ pc[q] \in Sending
        BY <1>7, <1>8, <3>1 DEF Sending
      <4>2. PICK b \in Slots : b = job[q].out
        <5>1. job[q].out \in 0..MaxSlot
          BY <1>1, JobParts DEF TypeOK
        <5> QED
          BY <3>1, <5>1, ShmPipesAssumption DEF Slots
      <4>3. uid[q] \in Slots /\ b # s
        BY <1>1, <1>3, <1>14, <1>16, <4>1, <4>2, HasUid, NoneTo
      <4>4. fifofd'[b][uid[q]] = fifofd[b][uid[q]]
        BY <1>6, <4>3
      <4> QED
        BY <1>16, <3>1, <4>1, <4>2, <4>4 DEF Awaited, Opened
    <3> QED
      BY <1>2, <3>1 DEF Opened
  <2>5. Whole'
    <3>1. \A q \in Procs : pc[q] \in {"write", "forget", "unlink"} => pc'[q] = pc[q]
      BY <1>2, <1>8
    <3> QED
      BY <1>2, <1>13, <1>16, <3>1 DEF Kept, Named, Awaited, Whole
  <2> QED
    BY <2>1, <2>2, <2>3, <2>4, <2>5 DEF Awaited
<1>17. Alive' => Alive
  BY <1>2, <1>8, StaysAlive
<1> QED
  BY <1>1, <1>2, <1>10, <1>12, <1>15, <1>16, <1>17, Layers

(* Its FIFO is removed from the directory.                                 *)
LEMMA RemoveStep ==
    ASSUME IInv, NEW p \in Procs, Remove(p)
    PROVE  IInv'
<1>1. TypeOK /\ Shape /\ Fits(p)
  BY DEF IInv, Shape
<1>2. /\ pc[p] = "remove" /\ ~pending[p] /\ hand[p] = 0
      /\ pc' = [pc EXCEPT ![p] = "drop"]
      /\ UNCHANGED <<uid, job, user, fifofd, pipe, reads, pending, hand, lines>>
      /\ manners' = manners /\ early' = early
  BY DEF Remove, At, Goto, records, signals
<1>3. PICK s \in Slots, a \in Slots : s = uid[p] /\ a = at[p]
  <2>1. uid[p] \in Slots /\ at[p] \in 1..MaxSlot + 1 /\ at[p] <= MaxSlot
    BY <1>1, <1>2 DEF Fits, TypeOK
  <2> QED
    BY <2>1, ShmPipesAssumption DEF Slots
<1>4. name' = Put(name, a, s, 0) /\ at' = [at EXCEPT ![p] = a + 1]
  BY <1>3 DEF Remove, Put
<1>5. /\ name' \in [Slots -> [Slots -> 0..MaxMade]]
      /\ name'[a][s] = 0
      /\ \A c, d \in Slots : c # a \/ d # s => name'[c][d] = name[c][d]
  <2>1. 0 \in 0..MaxMade
    BY ShmPipesAssumption
  <2> QED
    BY <1>1, <1>4, <2>1, DirectoryPut
<1>6. /\ pc' \in [Procs -> Locations] /\ pc'[p] = "drop"
      /\ at' \in [Procs -> 1..MaxSlot + 1] /\ at'[p] = a + 1
      /\ \A q \in Procs : q # p => pc'[q] = pc[q] /\ at'[q] = at[q]
      /\ \A q \in Procs : job'[q] = job[q] /\ Symbol(q)' = Symbol(q)
  <2>1. a + 1 \in 1..MaxSlot + 1
    BY ShmPipesAssumption DEF Slots
  <2> QED
    BY <1>1, <1>2, <1>4, <2>1 DEF TypeOK, Locations, Symbol
<1>7. TypeOK'
  BY <1>1, <1>2, <1>5, <1>6 DEF TypeOK
<1>8. Fits(p)'
  BY <1>1, <1>2, <1>6 DEF Fits, Living, Locations, Leaving, Working, Sending
<1>9. Shape'
  BY <1>1, <1>2, <1>6, <1>8, FitsFrame DEF Shape
<1>10. \A x, y \in Slots : name'[x][y] # 0 =>
          /\ name'[x][y] = name[x][y] /\ ~(x = a /\ y = s)
          /\ For(x, y)' = For(x, y) /\ By(x, y)' = By(x, y)
  BY <1>2, <1>5 DEF For, By
<1>11. pc[p] \in Leaving /\ pc[p] \in Living /\ pc'[p] \in Leaving
  BY <1>2, <1>6, Places DEF Leaving
<1>12. ASSUME Kept PROVE Kept'
  <2>1. \A q \in Procs : /\ (pc'[q] \in Staying) = (pc[q] \in Staying)
                         /\ (pc'[q] \in Leaving) = (pc[q] \in Leaving)
                         /\ (pc'[q] \in Living) = (pc[q] \in Living)
    BY <1>6, <1>11, Places
  <2>2. Owned'
    BY <1>1, <1>2, <1>12, <2>1, OwnedFrame DEF Kept
  <2>3. Calm'
    BY <1>2, <1>6, <1>12 DEF Kept, Calm, Leaving
  <2>4. Reached'
    BY <1>2, <1>6, <1>12 DEF Kept, Reached
  <2>5. fifofd[s][a] = NoFd
    BY <1>2, <1>3, <1>11, <1>12 DEF Kept, Cleared
  <2>6. Taking'
    <3>1. ASSUME NEW q \in Procs, job[q].in # 0
          PROVE  /\ q # p
                 /\ name'[job[q].in][uid[q]] = name[job[q].in][uid[q]]
      <4>1. uid[q] \in Slots /\ job[q].in \in Slots
        BY <1>1, <3>1, HasUid, TakesFrom
      <4>2. uid[q] # s
        BY <1>1, <1>3, <1>11, <1>12, <3>1, NoneTo
      <4> QED
        BY <1>3, <1>5, <4>1, <4>2
    <3> QED
      BY <1>2, <1>6, <1>12, <3>1 DEF Kept, Taking
  <2>7. ASSUME NEW x \in Slots, NEW y \in Slots, name'[x][y] # 0
        PROVE  /\ By(x, y)' \in Procs
               /\ For(x, y)' \in Procs /\ pc'[For(x, y)'] \in Living /\ uid[For(x, y)'] = y
               /\ \A q \in reads[name'[x][y]] : q = For(x, y)' /\ fifofd[y][x] # NoFd
               /\ fifofd[y][x] = NoFd => Due(x, y)'
    <3>1. /\ name'[x][y] = name[x][y] /\ ~(x = a /\ y = s)
          /\ For(x, y)' = For(x, y) /\ By(x, y)' = By(x, y)
      BY <1>10, <2>7
    <3>2. /\ By(x, y) \in Procs
          /\ For(x, y) \in Procs /\ pc[For(x, y)] \in Living /\ uid[For(x, y)] = y
          /\ \A q \in reads[name[x][y]] : q = For(x, y) /\ fifofd[y][x] # NoFd
          /\ fifofd[y][x] = NoFd => Due(x, y)
      BY <1>12, <2>7, <3>1 DEF Kept, Named
    <3>3. PICK q \in Procs, r \in Procs : q = For(x, y) /\ r = By(x, y)
      BY <3>2
    <3>4. ~(q = p /\ at[q] = x)
      BY <1>3, <3>1, <3>2, <3>3
    <3>5. Due(x, y) => Due(x, y)'
      BY <1>2, <1>6, <3>1, <3>3, <3>4 DEF Due
    <3> QED
      BY <2>1, <3>1, <3>2, <3>5
  <2>8. Named'
    BY <1>2, <2>7 DEF Named
  <2>9. Distinct'
    BY <1>10, <1>12 DEF Kept, Distinct
  <2>10. Fresh'
    BY <1>2, <1>12 DEF Kept, Fresh
  <2>11. Recorded'
    <3>1. ASSUME NEW x \in Slots, NEW y \in Slots, fifofd[y][x] # NoFd
          PROVE  /\ name'[x][y] # 0 /\ name'[x][y] = name[x][y]
                 /\ fifofd[y][x] = Fd(For(x, y)', name[x][y])
                 /\ \/ For(x, y)' \in reads[name[x][y]]
                    \/ pc'[For(x, y)'] = "forget" /\ job[For(x, y)'].in = x
      <4>1. /\ name[x][y] # 0
            /\ fifofd[y][x] = Fd(For(x, y), name[x][y])
            /\ \/ For(x, y) \in reads[name[x][y]]
               \/ pc[For(x, y)] = "forget" /\ job[For(x, y)].in = x
        BY <1>12, <3>1 DEF Kept, Recorded
      <4>2. name'[x][y] = name[x][y]
        BY <1>5, <2>5, <3>1
      <4>3. PICK q \in Procs : q = For(x, y) /\ q = For(x, y)'
        BY <1>10, <1>12, <4>1, <4>2 DEF Kept, Named
      <4> QED
        BY <1>2, <1>6, <4>1, <4>2, <4>3
    <3> QED
      BY <1>2, <3>1 DEF Recorded
  <2>12. Cleared'
    <3>1. \A x \in Slots : x < a + 1 => name'[x][s] = 0
      <4>1. \A x \in Slots : x < a + 1 => x < a \/ x = a
        BY ShmPipesAssumption DEF Slots
      <4>2. \A x \in Slots : x < a => name[x][s] = 0
        BY <1>3, <1>11, <1>12 DEF Kept, Cleared
      <4>3. \A x \in Slots : x < a => name'[x][s] = 0
        BY <1>5, <4>2
      <4> QED
        BY <1>5, <4>1, <4>3
    <3>2. ASSUME NEW q \in Procs, q # p, pc[q] \in Leaving
          PROVE  /\ \A x \in Slots : x < at[q] => name'[x][uid[q]] = 0
                 /\ pc[q] = "remove" => fifofd[uid[q]][at[q]] = NoFd
      <4>1. /\ \A x \in Slots : x < at[q] => name[x][uid[q]] = 0
            /\ pc[q] = "remove" => fifofd[uid[q]][at[q]] = NoFd
        BY <1>12, <3>2 DEF Kept, Cleared
      <4>2. uid[q] # s /\ uid[q] \in Slots
        BY <1>1, <1>3, <1>11, <1>12, <3>2, HasUid, OneUid, Places
      <4> QED
        BY <1>5, <4>1, <4>2
    <3> QED
      BY <1>2, <1>3, <1>6, <3>1, <3>2 DEF Cleared
  <2> QED
    BY <2>2, <2>3, <2>4, <2>6, <2>8, <2>9, <2>10, <2>11, <2>12 DEF Kept
<1>13. ASSUME Kept, Awaited PROVE Awaited'
  <2>1. Alive'
    BY <1>6, <1>13 DEF Awaited, Alive
  <2>2. Unannounced'
    <3>1. ASSUME NEW q \in Procs, NEW b \in Slots, pc'[q] \in Sending,
                 job'[q].out = b \/ (pc'[q] = "kill" /\ Symbol(q)' = To(b))
          PROVE  name'[uid[q]][b] # 0 /\ ~pipe[name'[uid[q]][b]].told
      <4>1. pc'[q] = pc[q] /\ job'[q] = job[q] /\ Symbol(q)' = Symbol(q)
        BY <1>6, <3>1 DEF Sending
      <4>2. uid[q] \in Slots
        BY <1>1, <3>1, <4>1, HasUid
      <4>3. name[uid[q]][b] # 0 /\ ~pipe[name[uid[q]][b]].told
        BY <1>13, <3>1, <4>1 DEF Awaited, Unannounced
      <4>4. b # s
        BY <1>1, <1>3, <1>11, <1>13, <3>1, <4>1, NoneTo
      <4> QED
        BY <1>5, <4>2, <4>3, <4>4
    <3> QED
      BY <1>2, <3>1 DEF Unannounced
  <2>3. Offered'
    <3>1. ASSUME NEW q \in Procs, NEW c \in Slots, From(c) \in Said(job[q].line)
          PROVE  name'[c][uid[q]] # 0 /\ pipe[name'[c][uid[q]]].told
      <4>1. pc[q] \in Working
        <5>1. Fits(q)
          BY <1>1 DEF Shape
        <5> QED
          BY <3>1, <5>1, IdleParts, SymbolsDiffer DEF Fits
      <4>2. uid[q] \in Slots /\ uid[q] # s
        BY <1>1, <1>3, <1>11, <1>13, <4>1, HasUid, NoneTo
      <4>3. name[c][uid[q]] # 0 /\ pipe[name[c][uid[q]]].told
        BY <1>13, <3>1 DEF Awaited, Offered
      <4> QED
        BY <1>5, <4>2, <4>3
    <3> QED
      BY <1>2, <3>1 DEF Offered
  <2>4. Opened'
    <3>1. ASSUME NEW q \in Procs, pc'[q] \in {"blocked", "read", "write"}, job[q].out # 0
          PROVE  /\ job[q].end = name'[uid[q]][job[q].out]
                 /\ (pc'[q] = "blocked") <=> (fifofd[job[q].out][uid[q]] = NoFd)
      <4>1. pc'[q] = pc[q] /\ pc[q] \in Sending
        BY <1>6, <3>1 DEF Sending
      <4>2. PICK b \in Slots : b = job[q].out
        <5>1. job[q].out \in 0..MaxSlot
          BY <1>1, JobParts DEF TypeOK
        <5> QED
          BY <3>1, <5>1, ShmPipesAssumption DEF Slots
      <4>3. uid[q] \in Slots /\ b # s
        BY <1>1, <1>3, <1>11, <1>13, <4>1, <4>2, HasUid, NoneTo
      <4>4. name'[uid[q]][b] = name[uid[q]][b]
        BY <1>5, <4>3
      <4> QED
        BY <1>13, <3>1, <4>1, <4>2, <4>4 DEF Awaited, Opened
    <3> QED
      BY <1>2, <3>1 DEF Opened
  <2>5. Whole'
    <3>1. \A q \in Procs : pc[q] \in {"write", "forget", "unlink"} => pc'[q] = pc[q]
      BY <1>2, <1>6
    <3>2. ASSUME NEW x \in Slots, NEW y \in Slots, name'[x][y] # 0, pipe[name'[x][y]].told
          PROVE  \/ pipe[name'[x][y]].state = "full"
                 \/ pc'[For(x, y)'] \in {"write", "forget", "unlink"} /\ job[For(x, y)'].in = x
      <4>1. name'[x][y] = name[x][y] /\ For(x, y)' = For(x, y)
        BY <1>10, <3>2
      <4>2. PICK q \in Procs : q = For(x, y)
        BY <1>13, <3>2, <4>1 DEF Kept, Named
      <4>3. \/ pipe[name[x][y]].state = "full"
            \/ pc[q] \in {"write", "forget", "unlink"} /\ job[q].in = x
        BY <1>13, <3>2, <4>1, <4>2 DEF Awaited, Whole
      <4> QED
        BY <3>1, <4>1, <4>2, <4>3
    <3> QED
      BY <1>2, <3>2 DEF Whole
  <2> QED
    BY <2>1, <2>2, <2>3, <2>4, <2>5 DEF Awaited
<1>14. Alive' => Alive
  BY <1>2, <1>6, StaysAlive
<1> QED
  BY <1>1, <1>2, <1>7, <1>9, <1>12, <1>13, <1>14, Layers

(* Its record is clear, and it ends.                                       *)
LEMMA GoneStep ==
    ASSUME IInv, NEW p \in Procs, Gone(p)
    PROVE  IInv'
<1>1. TypeOK /\ Shape /\ Fits(p)
  BY DEF IInv, Shape
<1>2. /\ pc[p] = "drop" /\ ~pending[p] /\ hand[p] = 0 /\ at[p] > MaxSlot
      /\ pc' = [pc EXCEPT ![p] = "gone"] /\ job' = [job EXCEPT ![p] = Idle]
      /\ reads' = [f \in Fifos |-> reads[f] \ {p}]
      /\ pending' = [pending EXCEPT ![p] = FALSE]
      /\ UNCHANGED <<uid, at, user, fifofd, name, pipe, hand, lines>>
      /\ manners' = manners /\ early' = early
  BY DEF Gone, At, Ends, Goto, records
<1>3. job[p] = Idle
  BY <1>1, <1>2 DEF Fits, Working, Sending
<1>4. /\ pc' \in [Procs -> Locations] /\ pc'[p] = "gone"
      /\ job' \in [Procs -> Jobs] /\ pending' \in [Procs -> BOOLEAN]
      /\ \A q \in Procs : q # p => pc'[q] = pc[q]
      /\ \A q \in Procs : pending'[q] = pending[q]
      /\ \A q \in Procs : job'[q] = job[q] /\ Symbol(q)' = Symbol(q)
  BY <1>1, <1>2, <1>3, IdleParts DEF TypeOK, Locations, Symbol
<1>5. /\ reads' \in [Fifos -> SUBSET Procs]
      /\ \A f \in Fifos : reads'[f] \subseteq reads[f]
      /\ \A f \in Fifos, q \in Procs : q # p /\ q \in reads[f] => q \in reads'[f]
  BY <1>1, <1>2 DEF TypeOK
<1>6. TypeOK'
  BY <1>1, <1>2, <1>4, <1>5 DEF TypeOK
<1>7. Fits(p)'
  BY <1>1, <1>2, <1>3, <1>4, IdleParts DEF Fits, Living, Locations, Leaving, Working, Sending
<1>8. Shape'
  BY <1>1, <1>2, <1>4, <1>7, FitsFrame DEF Shape
<1>9. /\ pc[p] \in Leaving /\ pc[p] \in Living
      /\ pc'[p] \notin Living /\ pc'[p] \notin Staying /\ pc'[p] \notin Leaving
  BY <1>2, <1>4, Places DEF Leaving, Living, Staying
<1>10. \A x, y \in Slots : For(x, y)' = For(x, y) /\ By(x, y)' = By(x, y)
  BY <1>2 DEF For, By
<1>11. PICK s \in Slots : s = uid[p]
  BY <1>1, <1>2 DEF Fits
<1>12. ASSUME Kept PROVE Kept'
  <2>1. Owned'
    <3>1. pc[p] \notin Staying
      BY <1>9, Places
    <3>2. ASSUME NEW t \in Slots, user[t] # NoProc
          PROVE  uid[user[t]] = t /\ pc'[user[t]] \in Staying
      <4>1. PICK r \in Procs : r = user[t] /\ uid[r] = t /\ pc[r] \in Staying
        <5>1. user[t] \in Procs
          BY <1>1, <3>2 DEF TypeOK
        <5> QED
          BY <1>12, <3>2, <5>1 DEF Kept, Owned
      <4> QED
        BY <1>4, <3>1, <4>1
    <3>3. \A q \in Procs : pc'[q] \in Staying => user[uid[q]] = q
      BY <1>4, <1>9, <1>12 DEF Kept, Owned
    <3>4. \A q \in Procs : pc'[q] \in Leaving => user[uid[q]] = NoProc
      BY <1>4, <1>9, <1>12 DEF Kept, Owned
    <3>5. \A q, r \in Procs :
            pc'[q] \in Living /\ pc'[r] \in Living /\ uid[q] = uid[r] => q = r
      BY <1>4, <1>9, <1>12 DEF Kept, Owned
    <3> QED
      BY <1>2, <3>2, <3>3, <3>4, <3>5 DEF Owned
  <2>2. Calm'
    BY <1>2, <1>4, <1>12 DEF Kept, Calm, Leaving
  <2>3. Reached'
    BY <1>2, <1>4, <1>12 DEF Kept, Reached
  <2>4. \A x \in Slots : name[x][s] = 0
    <3>1. \A x \in Slots : x < at[p]
      BY <1>1, <1>2, ShmPipesAssumption DEF Slots, TypeOK
    <3> QED
      BY <1>9, <1>11, <1>12, <3>1 DEF Kept, Cleared
  <2>5. Taking'
    <3>1. ASSUME NEW q \in Procs, job[q].in # 0
          PROVE  /\ q # p
                 /\ pc[q] = "forget" => q \notin reads'[name[job[q].in][uid[q]]]
      <4>1. q # p
        BY <1>3, <3>1, IdleParts
      <4>2. ASSUME pc[q] = "forget" PROVE q \notin reads'[name[job[q].in][uid[q]]]
        <5>1. PICK c \in Slots : c = job[q].in
          BY <1>1, <3>1, TakesFrom
        <5>2. name[c][uid[q]] \in Fifos
          BY <1>1, <1>12, <3>1, <4>2, <5>1, TakesOwn
        <5>3. q \notin reads[name[c][uid[q]]]
          BY <1>12, <3>1, <4>2, <5>1 DEF Kept, Taking
        <5> QED
          BY <1>5, <5>1, <5>2, <5>3
      <4> QED
        BY <4>1, <4>2
    <3> QED
      BY <1>2, <1>4, <1>12, <3>1 DEF Kept, Taking
  <2>6. ASSUME NEW x \in Slots, NEW y \in Slots, name[x][y] # 0
        PROVE  /\ By(x, y) \in Procs
               /\ For(x, y) \in Procs /\ pc'[For(x, y)] \in Living /\ uid[For(x, y)] = y
               /\ For(x, y) # p
               /\ \A q \in reads'[name[x][y]] : q = For(x, y) /\ fifofd[y][x] # NoFd
               /\ fifofd[y][x] = NoFd => Due(x, y)'
    <3>1. /\ By(x, y) \in Procs
          /\ For(x, y) \in Procs /\ pc[For(x, y)] \in Living /\ uid[For(x, y)] = y
          /\ \A q \in reads[name[x][y]] : q = For(x, y) /\ fifofd[y][x] # NoFd
          /\ fifofd[y][x] = NoFd => Due(x, y)
      BY <1>12, <2>6 DEF Kept, Named
    <3>2. PICK q \in Procs, r \in Procs : q = For(x, y) /\ r = By(x, y)
      BY <3>1
    <3>3. q # p
      BY <1>11, <2>4, <2>6, <3>1, <3>2
    <3>4. Due(x, y) => Due(x, y)'
      BY <1>2, <1>4, <1>10, <3>2, <3>3 DEF Due
    <3>5. name[x][y] \in Fifos
      BY <1>1, <2>6, NameTyped
    <3> QED
      BY <1>4, <1>5, <3>1, <3>2, <3>3, <3>4, <3>5
  <2>7. Named'
    BY <1>2, <1>10, <2>6 DEF Named
  <2>8. Distinct'
    BY <1>2, <1>12 DEF Kept, Distinct
  <2>9. Fresh'
    BY <1>2, <1>5, <1>12 DEF Kept, Fresh
  <2>10. Recorded'
    <3>1. ASSUME NEW x \in Slots, NEW y \in Slots, fifofd[y][x] # NoFd
          PROVE  /\ name[x][y] # 0
                 /\ fifofd[y][x] = Fd(For(x, y), name[x][y])
                 /\ \/ For(x, y) \in reads'[name[x][y]]
                    \/ pc'[For(x, y)] = "forget" /\ job[For(x, y)].in = x
      <4>1. /\ name[x][y] # 0
            /\ fifofd[y][x] = Fd(For(x, y), name[x][y])
            /\ \/ For(x, y) \in reads[name[x][y]]
               \/ pc[For(x, y)] = "forget" /\ job[For(x, y)].in = x
        BY <1>12, <3>1 DEF Kept, Recorded
      <4>2. PICK q \in Procs : q = For(x, y) /\ q # p
        BY <2>6, <4>1
      <4>3. name[x][y] \in Fifos
        BY <1>1, <4>1, NameTyped
      <4> QED
        BY <1>4, <1>5, <4>1, <4>2, <4>3
    <3> QED
      BY <1>2, <1>4, <1>10, <3>1 DEF Recorded
  <2>11. Cleared'
    BY <1>2, <1>4, <1>9, <1>12 DEF Kept, Cleared
  <2> QED
    BY <2>1, <2>2, <2>3, <2>5, <2>7, <2>8, <2>9, <2>10, <2>11 DEF Kept
<1>13. ASSUME Kept, Awaited PROVE Awaited'
  <2>1. Alive'
    BY <1>4, <1>13 DEF Awaited, Alive
  <2>2. Unannounced'
    BY <1>2, <1>4, <1>13 DEF Awaited, Unannounced, Sending
  <2>3. Offered'
    BY <1>2, <1>4, <1>13 DEF Awaited, Offered
  <2>4. Opened'
    BY <1>2, <1>4, <1>13 DEF Awaited, Opened
  <2>5. Whole'
    <3>1. \A q \in Procs : pc[q] \in {"write", "forget", "unlink"} => pc'[q] = pc[q]
      BY <1>2, <1>4
    <3> QED
      BY <1>2, <1>4, <1>10, <1>13, <3>1 DEF Kept, Named, Awaited, Whole
  <2> QED
    BY <2>1, <2>2, <2>3, <2>4, <2>5 DEF Awaited
<1>14. Alive' => Alive
  BY <1>2, <1>4, StaysAlive
<1> QED
  BY <1>1, <1>2, <1>6, <1>8, <1>12, <1>13, <1>14, Layers

-----------------------------------------------------------------------------
(* sigPipe.                                                                *)

(* The handler begins, at the first record.                                *)
LEMMA HandleStep ==
    ASSUME IInv, NEW p \in Procs, Handle(p)
    PROVE  IInv'
<1>1. TypeOK /\ Shape /\ Fits(p)
  BY DEF IInv, Shape
<1>2. /\ pc[p] \in Living /\ pending[p] /\ hand[p] = 0
      /\ pending' = [pending EXCEPT ![p] = FALSE] /\ hand' = [hand EXCEPT ![p] = 1]
      /\ UNCHANGED <<uid, at, job, user, fifofd, name, pipe, reads, lines>>
      /\ manners' = manners /\ early' = early
  BY DEF Handle, records, files
<1>3. PICK l \in Living :
        /\ pc' = [pc EXCEPT ![p] = l]
        /\ l = pc[p] \/ (pc[p] = "blocked" /\ l = "open")
  <2>1. CASE pc[p] = "blocked"
    BY <2>1 DEF Handle, Goto, Living, Locations
  <2>2. CASE pc[p] # "blocked"
    BY <1>1, <1>2, <2>2 DEF Handle, TypeOK
  <2> QED
    BY <2>1, <2>2
<1>4. /\ pc' \in [Procs -> Locations] /\ pc'[p] = l
      /\ pending' \in [Procs -> BOOLEAN] /\ ~pending'[p]
      /\ hand' \in [Procs -> 0..MaxSlot] /\ hand'[p] = 1
      /\ \A q \in Procs : q # p => pc'[q] = pc[q] /\ pending'[q] = pending[q] /\ hand'[q] = hand[q]
      /\ \A q \in Procs : job'[q] = job[q] /\ Symbol(q)' = Symbol(q)
  <2>1. 1 \in 0..MaxSlot /\ l \in Locations
    BY ShmPipesAssumption, Places
  <2> QED
    BY <1>1, <1>2, <1>3, <2>1 DEF TypeOK, Symbol
<1>5. TypeOK'
  BY <1>1, <1>2, <1>4 DEF TypeOK
<1>6. Fits(p)'
  BY <1>1, <1>2, <1>3, <1>4 DEF Fits, Living, Locations, Leaving, Working, Sending
<1>7. Shape'
  BY <1>1, <1>2, <1>4, <1>6, FitsFrame DEF Shape
<1>8. \A x, y \in Slots : For(x, y)' = For(x, y) /\ By(x, y)' = By(x, y)
  BY <1>2 DEF For, By
<1>9. \A q \in Procs : pc'[q] = pc[q] \/ (pc[q] = "blocked" /\ pc'[q] = "open")
  BY <1>3, <1>4
<1>10. ASSUME Kept PROVE Kept'
  <2>1. \A q \in Procs : /\ (pc'[q] \in Staying) = (pc[q] \in Staying)
                         /\ (pc'[q] \in Leaving) = (pc[q] \in Leaving)
                         /\ (pc'[q] \in Living) = (pc[q] \in Living)
    BY <1>9 DEF Staying, Living, Leaving, Locations
  <2>2. Owned'
    BY <1>1, <1>2, <1>10, <2>1, OwnedFrame DEF Kept
  <2>3. Calm'
    <3>1. pc[p] \notin Leaving \union {"unlink"}
      BY <1>2, <1>10 DEF Kept, Calm
    <3>2. \A q \in Procs : pc'[q] \in Leaving \union {"unlink"} => pc'[q] = pc[q]
      BY <1>9 DEF Leaving
    <3> QED
      BY <1>4, <1>10, <3>1, <3>2 DEF Kept, Calm
  <2>4. Reached'
    <3>1. \A q \in Procs : pc'[q] \in {"mknod", "kill"} => pc'[q] = pc[q]
      BY <1>9
    <3> QED
      BY <1>2, <1>4, <1>10, <3>1 DEF Kept, Reached
  <2>5. Taking'
    BY <1>2, <1>9, <1>10 DEF Kept, Taking
  <2>6. ASSUME NEW x \in Slots, NEW y \in Slots, name[x][y] # 0
        PROVE  /\ By(x, y)' \in Procs
               /\ For(x, y)' \in Procs /\ pc'[For(x, y)'] \in Living /\ uid[For(x, y)'] = y
               /\ \A q \in reads[name[x][y]] : q = For(x, y)' /\ fifofd[y][x] # NoFd
               /\ fifofd[y][x] = NoFd => Due(x, y)'
    <3>1. /\ By(x, y) \in Procs
          /\ For(x, y) \in Procs /\ pc[For(x, y)] \in Living /\ uid[For(x, y)] = y
          /\ \A q \in reads[name[x][y]] : q = For(x, y) /\ fifofd[y][x] # NoFd
          /\ fifofd[y][x] = NoFd => Due(x, y)
      BY <1>10, <2>6 DEF Kept, Named
    <3>2. PICK q \in Procs, r \in Procs : q = For(x, y) /\ r = By(x, y)
      BY <3>1
    <3>3. 1 \in 1..x
      BY ShmPipesAssumption DEF Slots
    <3>4. CASE q = p
      <4>1. Due(x, y)'
        BY <1>4, <1>8, <3>2, <3>3, <3>4 DEF Due
      <4> QED
        BY <1>8, <2>1, <3>1, <4>1
    <3>5. CASE q # p
      <4>1. Due(x, y) => Due(x, y)'
        BY <1>2, <1>4, <1>8, <1>9, <3>2, <3>5 DEF Due
      <4> QED
        BY <1>8, <2>1, <3>1, <4>1
    <3> QED
      BY <3>4, <3>5
  <2>7. Named'
    BY <1>2, <2>6 DEF Named
  <2>8. Distinct' /\ Fresh'
    BY <1>2, <1>10 DEF Kept, Distinct, Fresh
  <2>9. Recorded'
    <3>1. \A q \in Procs : pc[q] = "forget" => pc'[q] = "forget"
      BY <1>9
    <3> QED
      BY <1>2, <1>8, <1>10, <3>1 DEF Kept, Recorded, Named
  <2>10. Cleared'
    BY <1>2, <1>9, <1>10, <2>1 DEF Kept, Cleared
  <2> QED
    BY <2>2, <2>3, <2>4, <2>5, <2>7, <2>8, <2>9, <2>10 DEF Kept
<1>11. ASSUME Kept, Awaited PROVE Awaited'
  <2>1. Alive'
    BY <1>9, <1>11 DEF Awaited, Alive
  <2>2. Unannounced'
    <3>1. \A q \in Procs : pc'[q] \in Sending => pc[q] \in Sending
      BY <1>9 DEF Sending
    <3>2. \A q \in Procs : pc'[q] = "kill" => pc[q] = "kill"
      BY <1>9
    <3> QED
      BY <1>2, <1>4, <1>11, <3>1, <3>2 DEF Awaited, Unannounced
  <2>3. Offered'
    BY <1>2, <1>11 DEF Awaited, Offered
  <2>4. Opened'
    BY <1>2, <1>9, <1>11 DEF Awaited, Opened
  <2>5. Whole'
    <3>1. \A q \in Procs : pc[q] \in {"write", "forget", "unlink"} => pc'[q] = pc[q]
      BY <1>9
    <3> QED
      BY <1>2, <1>8, <1>11, <3>1 DEF Kept, Named, Awaited, Whole
  <2> QED
    BY <2>1, <2>2, <2>3, <2>4, <2>5 DEF Awaited
<1>12. Alive' => Alive
  BY <1>9 DEF Alive
<1> QED
  BY <1>1, <1>2, <1>5, <1>7, <1>10, <1>11, <1>12, Layers

(* The handler opens the FIFO that it has come to, if it is there and the  *)
(* record does not know it, and who waits for that goes on.                *)
LEMMA LookStep ==
    ASSUME IInv, NEW p \in Procs, Look(p)
    PROVE  IInv'
<1>1. TypeOK /\ Shape /\ Fits(p)
  BY DEF IInv, Shape
<1>2. /\ hand[p] # 0
      /\ UNCHANGED <<uid, at, job, user, name, pipe, pending, lines>>
      /\ manners' = manners /\ early' = early
  BY DEF Look
<1>3. pc[p] \in Living /\ uid[p] \in Slots
  BY <1>1, <1>2, HasUid DEF Fits
<1>4. PICK i \in Slots, s \in Slots : i = hand[p] /\ s = uid[p]
  <2>1. hand[p] \in 0..MaxSlot
    BY <1>1 DEF TypeOK
  <2> QED
    BY <1>2, <1>3, <2>1, ShmPipesAssumption DEF Slots
<1>5. PICK f \in 0..MaxMade : f = name[i][s]
  BY <1>1 DEF TypeOK
<1>6. PICK h \in 0..MaxSlot :
        /\ hand' = [hand EXCEPT ![p] = h]
        /\ \A x \in Slots : i <= x /\ x # i => h \in 1..x
  <2>1. CASE i < MaxSlot
    <3>1. hand' = [hand EXCEPT ![p] = i + 1]
      BY <1>4, <2>1 DEF Look
    <3>2. i + 1 \in 0..MaxSlot /\ \A x \in Slots : i <= x /\ x # i => i + 1 \in 1..x
      BY <2>1, ShmPipesAssumption DEF Slots
    <3> QED
      BY <3>1, <3>2
  <2>2. CASE ~(i < MaxSlot)
    <3>1. hand' = [hand EXCEPT ![p] = 0]
      BY <1>4, <2>2 DEF Look
    <3>2. \A x \in Slots : ~(i <= x /\ x # i)
      BY <2>2, ShmPipesAssumption DEF Slots
    <3>3. 0 \in 0..MaxSlot
      BY ShmPipesAssumption
    <3> QED
      BY <3>1, <3>2, <3>3
  <2> QED
    BY <2>1, <2>2
<1> DEFINE opens == f # 0 /\ fifofd[s][i] = NoFd
<1>7. f # 0 => f \in Fifos /\ Fd(p, f) \in Fds /\ Fd(p, f) # NoFd
  BY FdParts, ShmPipesAssumption DEF Fifos
<1>8. /\ fifofd' \in [Slots -> [Slots -> Fds]]
      /\ opens => fifofd'[s][i] = Fd(p, f)
      /\ ~opens => fifofd'[s][i] = fifofd[s][i]
      /\ \A t, c \in Slots : t # s \/ c # i => fifofd'[t][c] = fifofd[t][c]
  <2>1. CASE opens
    <3>1. fifofd' = Put(fifofd, s, i, Fd(p, f))
      BY <1>4, <1>5, <2>1 DEF Look, Put
    <3> QED
      BY <1>1, <1>7, <2>1, <3>1, RecordsPut
  <2>2. CASE ~opens
    <3>1. fifofd' = fifofd
      BY <1>4, <1>5, <2>2 DEF Look
    <3> QED
      BY <1>1, <2>2, <3>1 DEF TypeOK
  <2> QED
    BY <2>1, <2>2
<1>9. /\ reads' \in [Fifos -> SUBSET Procs]
      /\ opens => reads'[f] = reads[f] \union {p}
      /\ \A g \in Fifos : ~opens \/ g # f => reads'[g] = reads[g]
  <2>1. CASE opens
    <3>1. reads' = [reads EXCEPT ![f] = reads[f] \union {p}]
      BY <1>4, <1>5, <2>1 DEF Look
    <3> QED
      BY <1>1, <1>7, <2>1, <3>1 DEF TypeOK
  <2>2. CASE ~opens
    <3>1. reads' = reads
      BY <1>4, <1>5, <2>2 DEF Look
    <3> QED
      BY <1>1, <2>2, <3>1 DEF TypeOK
  <2> QED
    BY <2>1, <2>2
<1>10. /\ pc' \in [Procs -> Locations]
       /\ \A q \in Procs : \/ pc'[q] = pc[q]
                           \/ pc[q] = "blocked" /\ pc'[q] = "read" /\ job[q].end = f /\ opens
       /\ \A q \in Procs : opens /\ pc[q] = "blocked" /\ job[q].end = f => pc'[q] = "read"
  <2>1. CASE opens
    <3>1. pc' = [q \in Procs |-> IF pc[q] = "blocked" /\ job[q].end = f THEN "read" ELSE pc[q]]
      BY <1>4, <1>5, <2>1 DEF Look
    <3> QED
      BY <1>1, <2>1, <3>1 DEF TypeOK, Locations
  <2>2. CASE ~opens
    <3>1. pc' = pc
      BY <1>4, <1>5, <2>2 DEF Look
    <3> QED
      BY <1>1, <2>2, <3>1 DEF TypeOK
  <2> QED
    BY <2>1, <2>2
<1>11. /\ hand' \in [Procs -> 0..MaxSlot] /\ hand'[p] = h
       /\ \A q \in Procs : q # p => hand'[q] = hand[q]
       /\ \A q \in Procs : job'[q] = job[q] /\ Symbol(q)' = Symbol(q)
  BY <1>1, <1>2, <1>6 DEF TypeOK, Symbol
<1>12. opens => f # 0 /\ fifofd[s][i] = NoFd
  OBVIOUS
<1>13. name[i][s] # 0 => fifofd'[s][i] # NoFd
  BY <1>5, <1>7, <1>8
<1> HIDE DEF opens
<1>14. TypeOK'
  BY <1>1, <1>2, <1>8, <1>9, <1>10, <1>11 DEF TypeOK
<1>15. Shape'
  <2>1. ASSUME NEW q \in Procs PROVE Fits(q)'
    <3>1. Fits(q)
      BY <1>1 DEF Shape
    <3>2. pending'[q] = pending[q] /\ uid'[q] = uid[q] /\ at'[q] = at[q]
      BY <1>2
    <3>3. pc'[q] \notin Living => hand'[q] = 0
      <4>1. pc'[q] \notin Living => pc[q] \notin Living
        BY <1>10 DEF Living, Locations
      <4>2. pc[q] \notin Living => q # p /\ hand[q] = 0
        BY <1>3, <3>1 DEF Fits
      <4> QED
        BY <1>11, <4>1, <4>2
    <3> QED
      BY <1>10, <1>11, <3>1, <3>2, <3>3 DEF Fits, Living, Locations, Leaving, Working, Sending
  <2> QED
    BY <2>1 DEF Shape
<1>16. \A x, y \in Slots : For(x, y)' = For(x, y) /\ By(x, y)' = By(x, y)
  BY <1>2 DEF For, By
<1>17. ASSUME Kept PROVE Kept'
  <2>1. \A q \in Procs : /\ (pc'[q] \in Staying) = (pc[q] \in Staying)
                         /\ (pc'[q] \in Leaving) = (pc[q] \in Leaving)
                         /\ (pc'[q] \in Living) = (pc[q] \in Living)
    BY <1>10 DEF Staying, Living, Leaving, Locations
  <2>2. \A q \in Procs : pc'[q] \in {"mknod", "kill", "forget", "unlink", "drop", "remove"}
                          => pc'[q] = pc[q]
    BY <1>10
  <2>3. \A q \in Procs : pc[q] \in {"mknod", "kill", "forget", "unlink", "drop", "remove"}
                          => pc'[q] = pc[q]
    BY <1>10
  <2>4. Owned'
    BY <1>1, <1>2, <1>17, <2>1, OwnedFrame DEF Kept
  <2>5. pc[p] \notin Leaving \union {"unlink"}
    BY <1>2, <1>17 DEF Kept, Calm
  <2>6. Calm'
    BY <1>2, <1>11, <1>17, <2>2, <2>5 DEF Kept, Calm, Leaving
  <2>7. Reached'
    BY <1>2, <1>11, <1>17, <2>2 DEF Kept, Reached
  <2>8. name[i][s] # 0 => For(i, s) = p
    <3>1. ASSUME name[i][s] # 0
          PROVE  For(i, s) \in Procs /\ pc[For(i, s)] \in Living /\ uid[For(i, s)] = s
      BY <1>17, <3>1 DEF Kept, Named
    <3> QED
      BY <1>3, <1>4, <1>17, <3>1, OneUid
  <2>9. Taking'
    <3>1. ASSUME NEW q \in Procs, job[q].in # 0
          PROVE  /\ fifofd'[uid[q]][job[q].in] = fifofd[uid[q]][job[q].in]
                 /\ pc[q] = "forget" => q \notin reads'[name[job[q].in][uid[q]]]
      <4>1. uid[q] \in Slots /\ pc[q] \in Living
        BY <1>1, <3>1, HasUid
      <4>2. PICK c \in Slots : c = job[q].in
        BY <1>1, <3>1, TakesFrom
      <4>3. opens => q # p \/ c # i
        BY <1>4, <1>12, <1>17, <2>5, <3>1, <4>2 DEF Kept, Taking
      <4>4. uid[q] = s => q = p
        BY <1>3, <1>4, <1>17, <4>1, OneUid
      <4>5. fifofd'[uid[q]][c] = fifofd[uid[q]][c]
        BY <1>8, <4>1, <4>3, <4>4
      <4>6. ASSUME pc[q] = "forget" PROVE q \notin reads'[name[c][uid[q]]]
        <5>1. name[c][uid[q]] \in Fifos
          BY <1>1, <1>17, <3>1, <4>2, <4>6, TakesOwn
        <5>2. q \notin reads[name[c][uid[q]]]
          BY <1>17, <3>1, <4>2, <4>6 DEF Kept, Taking
        <5>3. opens /\ name[c][uid[q]] = f => c = i /\ uid[q] = s
          BY <1>5, <1>12, <1>17, <4>1 DEF Kept, Distinct
        <5> QED
          BY <1>9, <4>3, <4>4, <5>1, <5>2, <5>3
      <4> QED
        BY <4>2, <4>5, <4>6
    <3> QED
      BY <1>2, <1>10, <1>17, <3>1 DEF Kept, Taking
  <2>10. ASSUME NEW x \in Slots, NEW y \in Slots, name[x][y] # 0
         PROVE  /\ By(x, y) \in Procs
                /\ For(x, y) \in Procs /\ pc'[For(x, y)] \in Living /\ uid[For(x, y)] = y
                /\ \A q \in reads'[name[x][y]] : q = For(x, y) /\ fifofd'[y][x] # NoFd
                /\ fifofd'[y][x] = NoFd => Due(x, y)'
    <3>1. /\ By(x, y) \in Procs
          /\ For(x, y) \in Procs /\ pc[For(x, y)] \in Living /\ uid[For(x, y)] = y
          /\ \A q \in reads[name[x][y]] : q = For(x, y) /\ fifofd[y][x] # NoFd
          /\ fifofd[y][x] = NoFd => Due(x, y)
      BY <1>17, <2>10 DEF Kept, Named
    <3>2. name[x][y] \in Fifos
      BY <1>1, <2>10, NameTyped
    <3>3. CASE x = i /\ y = s
      <4>1. fifofd'[y][x] # NoFd
        BY <1>13, <2>10, <3>3
      <4>2. \A q \in reads'[name[x][y]] : q = For(x, y)
        BY <1>5, <1>9, <2>8, <2>10, <3>1, <3>2, <3>3
      <4> QED
        BY <2>1, <3>1, <4>1, <4>2
    <3>4. CASE ~(x = i /\ y = s)
      <4>1. fifofd'[y][x] = fifofd[y][x]
        BY <1>8, <3>4
      <4>2. reads'[name[x][y]] = reads[name[x][y]]
        <5>1. name[x][y] # name[i][s]
          BY <1>17, <2>10, <3>4 DEF Kept, Distinct
        <5> QED
          BY <1>5, <1>9, <3>2, <5>1
      <4>3. PICK q \in Procs, r \in Procs : q = For(x, y) /\ r = By(x, y)
        BY <3>1
      <4>4. hand[q] \in 1..x => hand'[q] \in 1..x
        <5>1. CASE q = p
          <6>1. i # x
            BY <1>4, <3>1, <3>4, <4>3, <5>1
          <6>2. hand[q] \in 1..x => i <= x
            BY <1>4, <5>1, ShmPipesAssumption DEF Slots
          <6> QED
            BY <1>6, <1>11, <5>1, <6>1, <6>2
        <5>2. CASE q # p
          BY <1>11, <5>2
        <5> QED
          BY <5>1, <5>2
      <4>5. Due(x, y) => Due(x, y)'
        BY <1>2, <1>11, <1>16, <2>3, <4>3, <4>4 DEF Due
      <4> QED
        BY <2>1, <3>1, <4>1, <4>2, <4>5
    <3> QED
      BY <3>3, <3>4
  <2>11. Named'
    BY <1>2, <1>16, <2>10 DEF Named
  <2>12. Distinct'
    BY <1>2, <1>17 DEF Kept, Distinct
  <2>13. Fresh'
    <3>1. opens => pipe[f].by # NoProc
      <4>1. opens => By(i, s) \in Procs
        BY <1>5, <1>12, <1>17 DEF Kept, Named
      <4> QED
        BY <1>5, <4>1, ShmPipesAssumption DEF By
    <3> QED
      BY <1>2, <1>9, <1>17, <3>1 DEF Kept, Fresh
  <2>14. Recorded'
    <3>1. ASSUME NEW x \in Slots, NEW y \in Slots, fifofd'[y][x] # NoFd
          PROVE  /\ name[x][y] # 0
                 /\ fifofd'[y][x] = Fd(For(x, y), name[x][y])
                 /\ \/ For(x, y) \in reads'[name[x][y]]
                    \/ pc'[For(x, y)] = "forget" /\ job[For(x, y)].in = x
      <4>1. CASE x = i /\ y = s /\ opens
        BY <1>5, <1>8, <1>9, <1>12, <2>8, <4>1
      <4>2. CASE ~(x = i /\ y = s /\ opens)
        <5>1. fifofd'[y][x] = fifofd[y][x]
          BY <1>8, <4>2
        <5>2. /\ name[x][y] # 0
              /\ fifofd[y][x] = Fd(For(x, y), name[x][y])
              /\ \/ For(x, y) \in reads[name[x][y]]
                 \/ pc[For(x, y)] = "forget" /\ job[For(x, y)].in = x
          BY <1>17, <3>1, <5>1 DEF Kept, Recorded
        <5>3. PICK q \in Procs : q = For(x, y)
          BY <1>17, <5>2 DEF Kept, Named
        <5>4. reads[name[x][y]] \subseteq reads'[name[x][y]]
          BY <1>1, <1>9, <5>2, NameTyped
        <5> QED
          BY <2>3, <5>1, <5>2, <5>3, <5>4
      <4> QED
        BY <4>1, <4>2
    <3> QED
      BY <1>2, <1>16, <3>1 DEF Recorded
  <2>15. Cleared'
    <3>1. ASSUME NEW q \in Procs, pc'[q] \in Leaving
          PROVE  /\ \A x \in Slots : x < at[q] => name[x][uid[q]] = 0
                 /\ pc'[q] = "remove" => fifofd'[uid[q]][at[q]] = NoFd
      <4>1. pc'[q] = pc[q]
        BY <2>2, <3>1 DEF Leaving
      <4>2. /\ \A x \in Slots : x < at[q] => name[x][uid[q]] = 0
            /\ pc[q] = "remove" => fifofd[uid[q]][at[q]] = NoFd
        BY <1>17, <3>1, <4>1 DEF Kept, Cleared
      <4>3. q # p /\ pc[q] \in Living
        BY <2>5, <3>1, <4>1, Places
      <4>4. uid[q] \in Slots /\ uid[q] # s
        BY <1>1, <1>3, <1>4, <1>17, <4>3, HasUid, OneUid
      <4>5. pc[q] = "remove" => at[q] \in Slots
        BY <1>1, ShmPipesAssumption DEF Shape, Fits, TypeOK, Slots
      <4> QED
        BY <1>8, <4>1, <4>2, <4>4, <4>5
    <3> QED
      BY <1>2, <3>1 DEF Cleared
  <2> QED
    BY <2>4, <2>6, <2>7, <2>9, <2>11, <2>12, <2>13, <2>14, <2>15 DEF Kept
<1>18. ASSUME Kept, Awaited PROVE Awaited'
  <2>1. Alive'
    BY <1>10, <1>18 DEF Awaited, Alive
  <2>2. Unannounced'
    <3>1. \A q \in Procs : pc'[q] \in Sending => pc[q] \in Sending
      BY <1>10 DEF Sending
    <3>2. \A q \in Procs : pc'[q] = "kill" => pc[q] = "kill"
      BY <1>10
    <3> QED
      BY <1>2, <1>11, <1>18, <3>1, <3>2 DEF Awaited, Unannounced
  <2>3. Offered'
    BY <1>2, <1>18 DEF Awaited, Offered
  <2>4. Opened'
    <3>1. ASSUME NEW q \in Procs, pc'[q] \in {"blocked", "read", "write"}, job[q].out # 0
          PROVE  /\ job[q].end = name[uid[q]][job[q].out]
                 /\ (pc'[q] = "blocked") <=> (fifofd'[job[q].out][uid[q]] = NoFd)
      <4>1. pc[q] \in {"blocked", "read", "write"} /\ pc[q] \in Sending
        BY <1>10, <3>1 DEF Sending
      <4>2. PICK b \in Slots : b = job[q].out
        <5>1. job[q].out \in 0..MaxSlot
          BY <1>1, JobParts DEF TypeOK
        <5> QED
          BY <3>1, <5>1, ShmPipesAssumption DEF Slots
      <4>3. PICK a \in Slots : a = uid[q]
        BY <1>1, <4>1, HasUid
      <4>4. /\ job[q].end = name[a][b]
            /\ (pc[q] = "blocked") <=> (fifofd[b][a] = NoFd)
        BY <1>18, <3>1, <4>1, <4>2, <4>3 DEF Awaited, Opened
      <4>5. CASE a = i /\ b = s
        <5>1. name[a][b] # 0
          BY <1>18, <4>1, <4>2, <4>3 DEF Awaited, Unannounced
        <5>2. fifofd'[b][a] # NoFd
          BY <1>13, <4>5, <5>1
        <5>3. pc'[q] # "blocked"
          <6>1. CASE opens
            BY <1>5, <1>10, <1>12, <4>4, <4>5, <6>1
          <6>2. CASE ~opens
            BY <1>8, <1>10, <4>4, <4>5, <5>2, <6>2
          <6> QED
            BY <6>1, <6>2
        <5> QED
          BY <4>2, <4>3, <4>4, <5>2, <5>3
      <4>6. CASE ~(a = i /\ b = s)
        <5>1. opens => job[q].end # f
          BY <1>5, <1>12, <1>18, <4>4, <4>6 DEF Kept, Distinct
        <5>2. pc'[q] = pc[q]
          BY <1>10, <5>1
        <5>3. fifofd'[b][a] = fifofd[b][a]
          BY <1>8, <4>6
        <5> QED
          BY <4>2, <4>3, <4>4, <5>2, <5>3
      <4> QED
        BY <4>5, <4>6
    <3> QED
      BY <1>2, <3>1 DEF Opened
  <2>5. Whole'
    <3>1. \A q \in Procs : pc[q] \in {"write", "forget", "unlink"} => pc'[q] = pc[q]
      BY <1>10
    <3> QED
      BY <1>2, <1>16, <1>18, <3>1 DEF Kept, Named, Awaited, Whole
  <2> QED
    BY <2>1, <2>2, <2>3, <2>4, <2>5 DEF Awaited
<1>19. Alive' => Alive
  BY <1>10 DEF Alive
<1> QED
  BY <1>1, <1>2, <1>14, <1>15, <1>17, <1>18, <1>19, Layers

-----------------------------------------------------------------------------
(* The invariant.                                                          *)

LEMMA InitHolds == Init => IInv
<1> SUFFICES ASSUME Init PROVE IInv
  OBVIOUS
<1>1. NoFd \in Fds /\ 0 \in 0..MaxSlot /\ 0 \in 0..MaxMade /\ 1 \in 1..MaxSlot + 1
  BY FdParts, ShmPipesAssumption
<1>2. pc \in [Procs -> Locations] /\ \A p \in Procs : pc[p] = "away"
  BY DEF Init, Locations
<1>3. job \in [Procs -> Jobs] /\ \A p \in Procs : job[p] = Idle
  BY IdleParts DEF Init
<1>4. fifofd \in [Slots -> [Slots -> Fds]] /\ \A s, a \in Slots : fifofd[s][a] = NoFd
  BY <1>1 DEF Init
<1>5. name \in [Slots -> [Slots -> 0..MaxMade]] /\ \A a, b \in Slots : name[a][b] = 0
  <2> DEFINE Names == 0..MaxMade
  <2>1. 0 \in Names
    BY <1>1
  <2> HIDE DEF Names
  <2>2. name \in [Slots -> [Slots -> Names]] /\ \A a, b \in Slots : name[a][b] = 0
    BY <2>1 DEF Init
  <2> QED
    BY <2>2 DEF Names
<1>6. pipe \in [Fifos -> Pipes] /\ \A f \in Fifos : pipe[f] = Unused
  BY DEF Init, Unused, Pipes
<1>7. TypeOK
  <2>1. /\ uid \in [Procs -> 0..MaxSlot] /\ at \in [Procs -> 1..MaxSlot + 1]
        /\ hand \in [Procs -> 0..MaxSlot] /\ lines \in 0..MaxLines
    BY <1>1, ShmPipesAssumption DEF Init
  <2>2. /\ manners \in Kinds /\ early \subseteq Slots /\ user \in [Slots -> Procs \union {NoProc}]
        /\ reads \in [Fifos -> SUBSET Procs] /\ pending \in [Procs -> BOOLEAN]
    BY DEF Init
  <2> QED
    BY <1>2, <1>3, <1>4, <1>5, <1>6, <2>1, <2>2 DEF TypeOK
<1>8. Shape
  BY <1>2, <1>3, IdleParts DEF Init, Shape, Fits, Living, Locations, Leaving, Working, Sending
<1>9. \A p \in Procs : pc[p] \notin Staying /\ pc[p] \notin Leaving /\ pc[p] \notin Living
  BY <1>2 DEF Staying, Leaving, Living, Locations
<1>10. Kept
  <2>1. Owned
    BY <1>9 DEF Owned, Init
  <2>2. Calm /\ Reached /\ Taking
    BY <1>2, <1>3, IdleParts DEF Calm, Reached, Taking, Leaving
  <2>3. Named /\ Distinct /\ Recorded
    BY <1>4, <1>5 DEF Named, Distinct, Recorded
  <2>4. Fresh /\ Cleared
    BY <1>9 DEF Fresh, Cleared, Init
  <2> QED
    BY <2>1, <2>2, <2>3, <2>4 DEF Kept
<1>11. Awaited
  <2>1. Alive /\ Unannounced /\ Opened
    BY <1>2 DEF Alive, Unannounced, Opened, Sending
  <2>2. Offered
    BY <1>3, IdleParts, SymbolsDiffer DEF Offered
  <2>3. Whole
    BY <1>5 DEF Whole
  <2> QED
    BY <2>1, <2>2, <2>3 DEF Awaited
<1> QED
  BY <1>7, <1>8, <1>10, <1>11 DEF IInv

LEMMA NextHolds ==
    ASSUME IInv, [Next]_vars
    PROVE  IInv'
<1>1. ASSUME NEW p \in Procs, Environment(p) PROVE IInv'
  <2>1. CASE Connect(p)
    BY <2>1, ConnectStep
  <2>2. CASE Exit(p)
    BY <2>2, ExitStep
  <2>3. CASE Message(p)
    BY <2>3, MessageStep
  <2>4. CASE \E l \in Lines : TypeLine(p, l)
    BY <2>4, TypeLineStep
  <2> QED
    BY <1>1, <2>1, <2>2, <2>3, <2>4 DEF Environment
<1>2. ASSUME NEW p \in Procs, Code(p) PROVE IInv'
  <2>1. CASE NoSymbol(p)
    BY <2>1, NoSymbolStep
  <2>2. CASE pipe_from_user(p)
    BY <2>2, pipe_from_userStep
  <2>3. CASE FindUser(p)
    BY <2>3, FindUserStep
  <2>4. CASE Mknod(p)
    BY <2>4, MknodStep
  <2>5. CASE Kill(p)
    BY <2>5, KillStep
  <2>6. CASE Open(p)
    BY <2>6, OpenStep
  <2>7. CASE ReadPipe(p)
    BY <2>7, ReadPipeStep
  <2>8. CASE WritePipe(p)
    BY <2>8, WritePipeStep
  <2>9. CASE Forget(p)
    BY <2>9, ForgetStep
  <2>10. CASE Unlink(p)
    BY <2>10, UnlinkStep
  <2>11. CASE Leave(p)
    BY <2>11, LeaveStep
  <2>12. CASE Drop(p)
    BY <2>12, DropStep
  <2>13. CASE Remove(p)
    BY <2>13, RemoveStep
  <2>14. CASE Gone(p)
    BY <2>14, GoneStep
  <2> QED
    BY <1>2, <2>1, <2>2, <2>3, <2>4, <2>5, <2>6, <2>7, <2>8, <2>9, <2>10, <2>11, <2>12,
       <2>13, <2>14 DEF Code
<1>3. ASSUME NEW p \in Procs, sigPipe(p) PROVE IInv'
  BY <1>3, HandleStep, LookStep DEF sigPipe
<1>4. CASE UNCHANGED vars
  <2>1. /\ UNCHANGED <<manners, early, pc, uid, at, job, user, fifofd, name, pipe, reads,
                      pending, hand, lines>>
    BY <1>4 DEF vars
  <2>2. TypeOK /\ Shape
    BY DEF IInv
  <2>3. TypeOK'
    BY <2>1, <2>2 DEF TypeOK
  <2>4. Shape'
    BY <2>1, <2>2, FitsFrame DEF Shape
  <2>5. \A p \in Procs : Symbol(p)' = Symbol(p)
    BY <2>1 DEF Symbol
  <2>6. \A a, b \in Slots : For(a, b)' = For(a, b) /\ By(a, b)' = By(a, b)
    BY <2>1 DEF For, By
  <2>7. ASSUME Kept PROVE Kept'
    <3>1. Owned'
      BY <2>1, <2>2, <2>7, OwnedFrame DEF Kept
    <3>2. Calm' /\ Reached' /\ Taking' /\ Distinct' /\ Fresh' /\ Cleared'
      BY <2>1, <2>5, <2>7 DEF Kept, Calm, Reached, Taking, Distinct, Fresh, Cleared
    <3>3. \A a, b \in Slots : By(a, b) \in Procs /\ Due(a, b) => Due(a, b)'
      BY <2>1, <2>5, <2>6 DEF Due
    <3>4. Named'
      BY <2>1, <2>6, <2>7, <3>3 DEF Kept, Named
    <3>5. Recorded'
      BY <2>1, <2>6, <2>7 DEF Kept, Recorded
    <3> QED
      BY <3>1, <3>2, <3>4, <3>5 DEF Kept
  <2>8. ASSUME Awaited PROVE Awaited'
    <3>1. Alive' /\ Unannounced' /\ Offered' /\ Opened'
      BY <2>1, <2>5, <2>8 DEF Awaited, Alive, Unannounced, Offered, Opened
    <3>2. Whole'
      BY <2>1, <2>6, <2>8 DEF Awaited, Whole
    <3> QED
      BY <3>1, <3>2 DEF Awaited
  <2>9. Alive' => Alive
    BY <2>1 DEF Alive
  <2> QED
    BY <2>1, <2>3, <2>4, <2>7, <2>8, <2>9, Layers
<1> QED
  BY <1>1, <1>2, <1>3, <1>4 DEF Next

(* The three layers hold in every state that is reached.                   *)
THEOREM InductiveInvariant == Spec => []IInv
<1>1. ASSUME IInv, [Next]_vars PROVE IInv'
  BY <1>1, NextHolds
<1> QED
  BY <1>1, InitHolds, PTL DEF Spec

-----------------------------------------------------------------------------
(* What it says.                                                           *)

(* Every variable keeps its type, whatever users do: in particular the     *)
(* loops of sigPipe and clean_cli stay within the records.                 *)
THEOREM TypeCorrect == Spec => []TypeOK
<1>1. IInv => TypeOK
  BY DEF IInv
<1> QED
  BY <1>1, InductiveInvariant, PTL

(* What IInv says of the three kinds of behaviours.                        *)
LEMMA LayersHold ==
    ASSUME IInv
    PROVE  /\ TypeOK /\ Shape
           /\ Polite /\ Apart /\ Alive => Kept
           /\ Patient /\ Polite /\ Apart => Kept /\ Awaited
  BY DEF IInv, Awaited

(* The record of a user whom something is for is his.                      *)
LEMMA OwnRecord ==
    ASSUME TypeOK, Kept, NEW b \in Slots, user[b] # NoProc, NEW q \in Procs,
           uid[q] = b, pc[q] \in Living
    PROVE  user[b] = q /\ pc[q] \in Staying
<1>1. PICK r \in Procs : r = user[b] /\ uid[r] = b /\ pc[r] \in Staying
  <2>1. user[b] \in Procs
    BY DEF TypeOK
  <2> QED
    BY <2>1 DEF Kept, Owned
<1>2. r = q
  BY <1>1, OneUid, Places
<1> QED
  BY <1>1, <1>2

(* A process that has made a FIFO for a user, signalled him and waits in   *)
(* open for a reader is not left waiting, and never finds the FIFO gone,   *)
(* if users wait for announcements, nobody leaves while he is piped to,    *)
(* signals keep apart from the removal of pipes and no record has been     *)
(* taken before the process that gave it up was through with it.           *)
THEOREM SendersAwaited == Spec => []SenderAwaited
<1>1. ASSUME IInv PROVE SenderAwaited
  <2> SUFFICES ASSUME Patient, Polite, Apart, NEW p \in Procs
               PROVE  /\ pc[p] # "dead"
                      /\ pc[p] = "blocked" =>
                          /\ job[p].end = name[uid[p]][job[p].out]
                          /\ WillOpen(job[p].out, uid[p])
    BY DEF SenderAwaited
  <2>1. TypeOK /\ Shape /\ Kept /\ Awaited
    BY <1>1, LayersHold
  <2>2. pc[p] # "dead"
    BY <2>1 DEF Awaited, Alive
  <2>3. ASSUME pc[p] = "blocked"
        PROVE  /\ job[p].end = name[uid[p]][job[p].out]
               /\ WillOpen(job[p].out, uid[p])
    <3>1. Fits(p) /\ pc[p] \in Sending /\ pc[p] \in Living
      BY <2>1, <2>3 DEF Shape, Sending, Living, Locations
    <3>2. PICK a \in Slots, b \in Slots : a = uid[p] /\ b = job[p].out
      <4>1. job[p].out # 0 /\ job[p].out \in 0..MaxSlot
        BY <2>1, <2>3, <3>1, JobParts DEF Fits, TypeOK
      <4>2. uid[p] \in Slots
        BY <2>1, <3>1, HasUid
      <4> QED
        BY <4>1, <4>2, ShmPipesAssumption DEF Slots
    <3>3. b # 0
      BY ShmPipesAssumption DEF Slots
    <3>4. job[p].end = name[a][b] /\ fifofd[b][a] = NoFd
      BY <2>1, <2>3, <3>2, <3>3 DEF Awaited, Opened
    <3>5. name[a][b] # 0
      BY <2>1, <3>1, <3>2 DEF Awaited, Unannounced
    <3>6. /\ For(a, b) \in Procs /\ pc[For(a, b)] \in Living /\ uid[For(a, b)] = b
          /\ By(a, b) \in Procs /\ Due(a, b)
      BY <2>1, <3>4, <3>5 DEF Kept, Named
    <3>7. PICK q \in Procs, r \in Procs : q = For(a, b) /\ r = By(a, b)
      BY <3>6
    <3>8. user[b] = q /\ pc[q] \in Staying
      <4>1. user[b] # NoProc
        BY <2>1, <3>2, <3>3 DEF Kept, Reached
      <4> QED
        BY <2>1, <3>6, <3>7, <4>1, OwnRecord
    <3>9. ~(pc[r] = "kill" /\ uid[r] = a)
      <4>1. ASSUME pc[r] = "kill", uid[r] = a PROVE FALSE
        <5>1. pc[r] \in Living
          BY <4>1 DEF Living, Locations
        <5>2. r = p
          BY <2>1, <3>1, <3>2, <4>1, <5>1, OneUid
        <5> QED
          BY <2>3, <4>1, <5>2
      <4> QED
        BY <4>1
    <3>10. ~(pc[q] = "unlink" /\ job[q].in = a)
      BY <2>1, <3>1, <3>2, <3>6, <3>7, NotTaken
    <3>11. pc[q] # "remove"
      BY <3>8, Places DEF Leaving
    <3>12. pending[q] \/ hand[q] \in 1..a
      BY <3>6, <3>7, <3>9, <3>10, <3>11 DEF Due
    <3> QED
      BY <3>2, <3>4, <3>8, <3>12 DEF WillOpen
  <2> QED
    BY <2>2, <2>3
<1> QED
  BY <1>1, InductiveInvariant, PTL

(* When no line is under way and nobody is leaving, directory, records and *)
(* descriptors agree, although records outlive their users and no process  *)
(* clears the descriptors of the record it takes: it is enough that no     *)
(* record is taken while it is being cleaned.                              *)
THEOREM RecordsMatchAtRest == Spec => []RecordsMatch
<1>1. ASSUME IInv PROVE RecordsMatch
  <2> SUFFICES ASSUME Polite, Apart, AtRest, NEW a \in Slots, NEW b \in Slots
               PROVE  IF name[a][b] = 0 THEN fifofd[b][a] = NoFd
                      ELSE /\ user[b] # NoProc
                           /\ fifofd[b][a] = Fd(user[b], name[a][b])
                           /\ user[b] \in reads[name[a][b]]
    BY DEF RecordsMatch
  <2>1. TypeOK /\ Kept
    <3>1. Alive
      BY DEF AtRest, Alive
    <3> QED
      BY <1>1, <3>1, LayersHold
  <2>2. CASE name[a][b] = 0
    BY <2>1, <2>2 DEF Kept, Recorded
  <2>3. CASE name[a][b] # 0
    <3>1. /\ For(a, b) \in Procs /\ pc[For(a, b)] \in Living /\ uid[For(a, b)] = b
          /\ By(a, b) \in Procs
          /\ fifofd[b][a] = NoFd => Due(a, b)
      BY <2>1, <2>3 DEF Kept, Named
    <3>2. PICK q \in Procs, r \in Procs : q = For(a, b) /\ r = By(a, b)
      BY <3>1
    <3>3. pc[q] = "prompt" /\ ~pending[q] /\ hand[q] = 0 /\ pc[r] # "kill"
      BY <3>1, <3>2 DEF AtRest, Living
    <3>4. ~Due(a, b)
      <4>1. 0 \notin 1..a
        OBVIOUS
      <4> QED
        BY <3>2, <3>3, <4>1 DEF Due
    <3>5. user[b] = q /\ q # NoProc
      <4>1. pc[q] \in Staying
        BY <3>3 DEF Staying, Living, Locations, Leaving
      <4> QED
        BY <2>1, <3>1, <3>2, <4>1, ShmPipesAssumption DEF Kept, Owned
    <3>6. fifofd[b][a] = Fd(q, name[a][b]) /\ q \in reads[name[a][b]]
      BY <2>1, <3>1, <3>2, <3>3, <3>4 DEF Kept, Recorded
    <3> QED
      BY <2>3, <3>5, <3>6
  <2> QED
    BY <2>2, <2>3
<1> QED
  BY <1>1, InductiveInvariant, PTL

(* A step by which a command goes on from reading to writing is ReadPipe.  *)
LEMMA OnlyReads ==
    ASSUME TypeOK, Next, NEW p \in Procs, pc[p] = "read", pc'[p] = "write"
    PROVE  ReadPipe(p)
<1>1. PICK q \in Procs : Environment(q) \/ Code(q) \/ sigPipe(q)
  BY DEF Next
<1>2. ASSUME NEW l, pc' = [pc EXCEPT ![q] = l], pc[q] # "read" PROVE FALSE
  <2>1. q # p
    BY <1>2
  <2> QED
    BY <1>2, <2>1 DEF TypeOK
<1>3. pc' # pc
  OBVIOUS
<1>4. ~Environment(q)
  BY <1>2 DEF Environment, Connect, TypeLine, Exit, Message, At, Goto
<1>5. ~(NoSymbol(q) \/ pipe_from_user(q) \/ FindUser(q) \/ Mknod(q) \/ Kill(q))
  <2>1. ASSUME NEW ok, NEW js, Advance(q, ok, js), pc[q] # "read" PROVE FALSE
    BY <1>2, <2>1 DEF Advance, Goto
  <2>2. ~NoSymbol(q)
    BY <2>1 DEF NoSymbol, At
  <2>3. ~pipe_from_user(q)
    BY <2>1 DEF pipe_from_user, At
  <2>4. ~FindUser(q)
    BY <1>2, <2>1 DEF FindUser, At, Goto
  <2>5. ~Mknod(q)
    BY <1>2, <2>1 DEF Mknod, At, Goto
  <2>6. ~Kill(q)
    BY <2>1 DEF Kill, At
  <2> QED
    BY <2>2, <2>3, <2>4, <2>5, <2>6
<1>6. ~Open(q)
  BY <1>2 DEF Open, Ends, At, Goto
<1>7. ~WritePipe(q) /\ ~Forget(q) /\ ~Unlink(q) /\ ~Leave(q)
  BY <1>2 DEF WritePipe, Forget, Unlink, Leave, At, Goto
<1>8. ~Drop(q) /\ ~Remove(q) /\ ~Gone(q)
  BY <1>2, <1>3 DEF Drop, Remove, Gone, Ends, At, Goto
<1>9. ~sigPipe(q)
  <2>1. ~Handle(q)
    BY <1>2, <1>3 DEF Handle, Goto
  <2>2. ~Look(q)
    BY <1>3 DEF Look
  <2> QED
    BY <2>1, <2>2 DEF sigPipe
<1>10. ReadPipe(q)
  BY <1>1, <1>4, <1>5, <1>6, <1>7, <1>8, <1>9 DEF Code
<1>11. q = p
  <2>1. pc' = [pc EXCEPT ![q] = "write"]
    BY <1>10 DEF ReadPipe, Goto
  <2> QED
    BY <2>1 DEF TypeOK
<1> QED
  BY <1>10, <1>11

(* A command that takes a pipe reads all of what a line was announced to   *)
(* have sent to its user, and is the first to do so, as long as no record  *)
(* has been taken while it was being cleaned.                              *)
THEOREM PipesReadWhole == Spec => ReadsWhole
<1>1. ASSUME IInv, [Next]_vars
      PROVE  [Patient /\ Polite /\ Apart => \A p \in Procs :
                pc[p] = "read" /\ pc'[p] = "write" /\ job[p].in # 0
                  => LET f == job[p].input.fifo
                     IN  /\ pipe[f].for = p /\ pipe[f].told
                         /\ pipe[f].state = "full" /\ pipe'[f].state = "taken"]_vars
  <2>1. ASSUME Patient, Polite, Apart, NEW p \in Procs,
               pc[p] = "read", pc'[p] = "write", job[p].in # 0
        PROVE  LET f == job[p].input.fifo
               IN  /\ pipe[f].for = p /\ pipe[f].told
                   /\ pipe[f].state = "full" /\ pipe'[f].state = "taken"
    <3>1. TypeOK /\ Shape /\ Fits(p) /\ Kept /\ Awaited
      BY <1>1, <2>1, LayersHold DEF Shape
    <3>2. Next
      BY <1>1, <2>1 DEF vars
    <3>3. ReadPipe(p)
      BY <2>1, <3>1, <3>2, OnlyReads
    <3>4. PICK a \in Slots : a = job[p].in
      BY <2>1, <3>1, TakesFrom
    <3>5. PICK s \in Slots : s = uid[p]
      BY <2>1, <3>1, <3>4, TakesOwn
    <3>6. PICK f \in Fifos : /\ f = name[a][s] /\ job[p].input = Fd(p, f)
                             /\ For(a, s) = p
      BY <2>1, <3>1, <3>4, <3>5, TakesOwn
    <3>7. f # 0
      BY ShmPipesAssumption DEF Fifos
    <3>8. pipe[f].for = p
      BY <3>6 DEF For
    <3>9. pipe[f].told
      <4>1. From(a) \in Said(job[p].line)
        BY <2>1, <3>1, <3>4 DEF Fits
      <4> QED
        BY <3>1, <3>5, <3>6, <4>1 DEF Awaited, Offered
    <3>10. pipe[f].state = "full"
      BY <2>1, <3>1, <3>6, <3>7, <3>9 DEF Awaited, Whole
    <3>11. pipe' = [pipe EXCEPT ![f].state = "taken"]
      <4>1. job[p].input.by = p /\ job[p].input.fifo = f
        BY <3>6, FdParts
      <4>2. PICK fd : fd = job[p].input
        OBVIOUS
      <4>3. PICK g \in Means(p, fd) : pipe' = IF g # 0 /\ pipe[g].state = "full"
                                             THEN [pipe EXCEPT ![g].state = "taken"] ELSE pipe
        BY <3>3, <4>2 DEF ReadPipe
      <4>4. g = f
        BY <4>1, <4>2, <4>3 DEF Means
      <4> QED
        BY <3>7, <3>10, <4>3, <4>4
    <3>12. pipe'[f].state = "taken"
      <4>1. PICK x \in Pipes : x = pipe[f]
        BY <3>1 DEF TypeOK
      <4>2. pipe' = [pipe EXCEPT ![f] = [x EXCEPT !.state = "taken"]]
        BY <3>11, <4>1
      <4>3. pipe'[f] = [x EXCEPT !.state = "taken"]
        BY <3>1, <4>2 DEF TypeOK
      <4> QED
        BY <4>1, <4>3 DEF Pipes
    <3> QED
      BY <3>6, <3>8, <3>9, <3>10, <3>12, FdParts
  <2> QED
    BY <2>1
<1> QED
  BY <1>1, InductiveInvariant, PTL DEF Spec, ReadsWhole
=============================================================================
