----------------------------- MODULE ShmServer -----------------------------
(***************************************************************************)
(* The chat shell with one process per client (Project2/shm): the records  *)
(* in shared memory and the messages that go through them.  A record has   *)
(* one buffer, shmdata[i].msg.  Who has something to say copies it there   *)
(* and sends SIGALRM to the process in shmdata[i].pid, whose handler       *)
(* sigMsg writes the buffer to its client and puts a blank in its place.   *)
(* There is no lock anywhere, so a step here is one access to the shared   *)
(* memory.  (A copy of a text is one access: that two copies at one time   *)
(* can mix their letters is left out.)                                     *)
(*                                                                         *)
(* The pipes between users are the subject of ShmPipes.                    *)
(***************************************************************************)
EXTENDS Naturals, FiniteSets

CONSTANTS
    Procs,      \* the processes the server forks, one per connection
    NoProc,     \* the pid -1
    MaxSlot     \* the records are those of 1..MaxSlot (30 in the code)

ASSUME ShmServerAssumption ==
    /\ NoProc \notin Procs
    /\ MaxSlot \in Nat \ {0}

VARIABLES
    orderly,    \* no connection is made while another is in client_init
    pc,         \* pc[p]: where the process p is
    uid,        \* uid[p]: its global uid, 0 until client_init has returned
    i,          \* i[p]: the loop variable of client_init or yell
    last,       \* last[p]: where the loop of yell ends; tell is one turn
    msg,        \* msg[p]: the text it sends
    pid,        \* pid[s]: shmdata[s].pid
    box,        \* box[s]: shmdata[s].msg
    pending,    \* pending[p]: SIGALRM has been sent to p and not handled
    handling,   \* handling[p]: sigMsg is between its write and its strcpy
    shown       \* history: shown[p], what users said that p's client has seen

vars == <<orderly, pc, uid, i, last, msg, pid, box, pending, handling, shown>>

memory  == <<pid, box>>
signals == <<pending, handling, shown>>

Slots == 1..MaxSlot

Messages == [kind : {"entered", "left", "said"}, by : Procs]
Blank    == [kind |-> "blank", by |-> NoProc]
Text(k, p) == [kind |-> k, by |-> p]

Locations == {"away", "scan", "claim", "claimed", "homed", "check", "put", "kill",
              "prompt", "clean", "wipe", "gone", "off"}

Living  == Locations \ {"away", "gone", "off"}
Joining == {"scan", "claim", "claimed"}
Serving == {"homed", "check", "put", "kill", "prompt", "clean"}

Init ==
    /\ orderly \in BOOLEAN
    /\ pc = [p \in Procs |-> "away"]
    /\ uid = [p \in Procs |-> 0]
    /\ i = [p \in Procs |-> 1]
    /\ last = [p \in Procs |-> 0]
    /\ msg = [p \in Procs |-> Blank]
    /\ pid = [s \in Slots |-> NoProc]
    /\ box = [s \in Slots |-> Blank]
    /\ pending = [p \in Procs |-> FALSE]
    /\ handling = [p \in Procs |-> FALSE]
    /\ shown = [p \in Procs |-> {}]

Goto(p, l) == pc' = [pc EXCEPT ![p] = l]

(* The handler runs in the middle of everything else its process does.     *)
At(p, l) == pc[p] = l /\ ~handling[p]

-----------------------------------------------------------------------------
(* A connection: accept and two forks, then client_init.                   *)

(* There are as many records as the assignment has users.                  *)
Connect(p) ==
    /\ At(p, "away")
    /\ Cardinality({q \in Procs : pc[q] \in Living}) < MaxSlot
    /\ orderly => \A q \in Procs : pc[q] \notin Joining
    /\ Goto(p, "scan")
    /\ UNCHANGED <<orderly, uid, i, last, msg, memory, signals>>

(* client_init looks for a record whose pid is -1.  Past the last one it   *)
(* gives back an index that is not in the memory at all.                   *)
Scan(p) ==
    /\ At(p, "scan")
    /\ IF i[p] > MaxSlot THEN Goto(p, "off") /\ UNCHANGED i
       ELSE IF pid[i[p]] = NoProc THEN Goto(p, "claim") /\ UNCHANGED i
       ELSE i' = [i EXCEPT ![p] = @ + 1] /\ UNCHANGED pc
    /\ UNCHANGED <<orderly, uid, last, msg, memory, signals>>

(* It writes to the record it has found, whoever has written there since.  *)
Claim(p) ==
    /\ At(p, "claim")
    /\ pid' = [pid EXCEPT ![i[p]] = p]
    /\ Goto(p, "claimed")
    /\ UNCHANGED <<orderly, uid, i, last, msg, box, signals>>

(* (Changed by a mutation: the index after the one that was claimed.)      *)
Return_off_by_one(p) ==
    /\ At(p, "claimed")
    /\ uid' = [uid EXCEPT ![p] = i[p] + 1]
    /\ Goto(p, "homed")
    /\ UNCHANGED <<orderly, i, last, msg, memory, signals>>

(* The index goes to the global uid; clifd is set when main goes on.       *)
Return(p) ==
    /\ At(p, "claimed")
    /\ uid' = [uid EXCEPT ![p] = i[p]]
    /\ Goto(p, "homed")
    /\ UNCHANGED <<orderly, i, last, msg, memory, signals>>

-----------------------------------------------------------------------------
(* tell and yell: for one user, or for every index, look at the pid, copy  *)
(* the message, send the signal.                                           *)

Speak(p, m, from, to) ==
    /\ msg' = [msg EXCEPT ![p] = m]
    /\ i' = [i EXCEPT ![p] = from]
    /\ last' = [last EXCEPT ![p] = to]
    /\ Goto(p, "check")
    /\ UNCHANGED <<orderly, uid, memory, signals>>

(* (Changed by a mutation: the newcomer tells those above it only.)        *)
Enter_tells_others(p) ==
    At(p, "homed") /\ Speak(p, Text("entered", p), uid[p] + 1, MaxSlot)

Enter(p) == At(p, "homed") /\ Speak(p, Text("entered", p), 1, MaxSlot)

(* A user says one thing at most, which bounds the messages.               *)
Quiet(p) == msg[p].kind = "entered"

(* (Changed by a mutation: the record is given up before the farewell.)    *)
Exit_frees_first(p) ==
    /\ At(p, "prompt")
    /\ pid' = [pid EXCEPT ![uid[p]] = NoProc]
    /\ msg' = [msg EXCEPT ![p] = Text("left", p)]
    /\ last' = [last EXCEPT ![p] = MaxSlot]
    /\ Goto(p, "check")
    /\ UNCHANGED <<orderly, uid, i, box, signals>>

Yell(p)    == At(p, "prompt") /\ Quiet(p) /\ Speak(p, Text("said", p), 1, MaxSlot)
Tell(p, s) == At(p, "prompt") /\ Quiet(p) /\ Speak(p, Text("said", p), s, s)
Exit(p)    == At(p, "prompt") /\ Speak(p, Text("left", p), 1, MaxSlot)

(* The next index, or what comes after the loop.                           *)
NextIndex(p) ==
    IF i[p] < last[p]
    THEN /\ i' = [i EXCEPT ![p] = @ + 1]
         /\ Goto(p, "check")
    ELSE /\ i' = [i EXCEPT ![p] = 1]
         /\ Goto(p, IF msg[p].kind = "left" THEN "clean" ELSE "prompt")

Check(p) ==
    /\ At(p, "check")
    /\ IF i[p] \in Slots /\ pid[i[p]] # NoProc
       THEN Goto(p, "put") /\ UNCHANGED i
       ELSE NextIndex(p)
    /\ UNCHANGED <<orderly, uid, last, msg, memory, signals>>

Put(p) ==
    /\ At(p, "put")
    /\ box' = [box EXCEPT ![i[p]] = msg[p]]
    /\ Goto(p, "kill")
    /\ UNCHANGED <<orderly, uid, i, last, msg, pid, signals>>

(* Signals do not queue.  kill(-1) reaches every other process.            *)
Kill(p) ==
    LET to == pid[i[p]]
    IN  /\ At(p, "kill")
        /\ pending' = [q \in Procs |->
                          pending[q] \/ (pc[q] \in Living /\ IF to = NoProc THEN q # p ELSE q = to)]
        /\ NextIndex(p)
        /\ UNCHANGED <<orderly, uid, last, msg, memory, handling, shown>>

-----------------------------------------------------------------------------
(* sigMsg.  Before uid is set it works on the record 0, and before clifd   *)
(* is set it writes to the descriptor 0.                                   *)
Show(p) ==
    /\ pc[p] \in Living
    /\ pending[p] /\ ~handling[p]
    /\ pending' = [pending EXCEPT ![p] = FALSE]
    /\ handling' = [handling EXCEPT ![p] = uid[p] # 0]
    /\ shown' = IF uid[p] # 0 /\ pc[p] # "homed" /\ box[uid[p]].kind = "said"
                THEN [shown EXCEPT ![p] = @ \union {box[uid[p]]}]
                ELSE shown
    /\ UNCHANGED <<orderly, pc, uid, i, last, msg, memory>>

(* (Changed by a mutation: the message stays in the buffer.)               *)
Erase_nothing(p) ==
    /\ handling[p]
    /\ handling' = [handling EXCEPT ![p] = FALSE]
    /\ UNCHANGED <<orderly, pc, uid, i, last, msg, memory, pending, shown>>

Erase(p) ==
    /\ handling[p]
    /\ box' = [box EXCEPT ![uid[p]] = Blank]
    /\ handling' = [handling EXCEPT ![p] = FALSE]
    /\ UNCHANGED <<orderly, pc, uid, i, last, msg, pid, pending, shown>>

-----------------------------------------------------------------------------
(* clean_cli gives the record up before it has cleaned it.  With the       *)
(* process goes what it alone knew.                                        *)

Release(p) ==
    /\ At(p, "clean")
    /\ pid' = [pid EXCEPT ![uid[p]] = NoProc]
    /\ Goto(p, "wipe")
    /\ UNCHANGED <<orderly, uid, i, last, msg, box, signals>>

Wipe(p) ==
    /\ At(p, "wipe")
    /\ box' = [box EXCEPT ![uid[p]] = Blank]
    /\ Goto(p, "gone")
    /\ uid' = [uid EXCEPT ![p] = 0]
    /\ last' = [last EXCEPT ![p] = 0]
    /\ msg' = [msg EXCEPT ![p] = Blank]
    /\ pending' = [pending EXCEPT ![p] = FALSE]
    /\ shown' = [shown EXCEPT ![p] = {}]
    /\ UNCHANGED <<orderly, i, pid, handling>>

-----------------------------------------------------------------------------
Code(p) ==
    \/ Scan(p) \/ Claim(p) \/ Return(p) \/ Enter(p)
    \/ Check(p) \/ Put(p) \/ Kill(p)
    \/ Release(p) \/ Wipe(p)

Handler(p) == Show(p) \/ Erase(p)

User(p) == Connect(p) \/ Yell(p) \/ Exit(p) \/ \E s \in Slots : Tell(p, s)

Next == \E p \in Procs : User(p) \/ Code(p) \/ Handler(p)

Spec == Init /\ [][Next]_vars

-----------------------------------------------------------------------------
(* Properties.                                                             *)

TypeOK ==
    /\ orderly \in BOOLEAN
    /\ pc \in [Procs -> Locations]
    /\ uid \in [Procs -> 0..MaxSlot]
    /\ i \in [Procs -> 1..MaxSlot + 1]
    /\ last \in [Procs -> 0..MaxSlot]
    /\ msg \in [Procs -> Messages \union {Blank}]
    /\ pid \in [Slots -> Procs \union {NoProc}]
    /\ box \in [Slots -> Messages \union {Blank}]
    /\ pending \in [Procs -> BOOLEAN] /\ handling \in [Procs -> BOOLEAN]
    /\ shown \in [Procs -> SUBSET Messages]

(* If clients come one at a time, each process is the owner of its record  *)
(* from client_init to clean_cli, although others give theirs up and clean *)
(* them meanwhile: the signals for it reach it, and its id is its own.     *)
OwnRecord == orderly => \A p \in Procs : pc[p] \in Serving => pid[uid[p]] = p

(* A message that lies in the buffer of a user who has come in is about to *)
(* be seen: the signal for it is pending, being handled, or about to be    *)
(* sent.  So what yell and tell promise fails only by overwriting, never   *)
(* by a message that waits unseen until somebody sends another.            *)
Signalled ==
    \A p \in Procs :
        LET s == uid[p]
        IN  pc[p] = "prompt" /\ pid[s] = p /\ box[s] # Blank
                => \/ pending[p] \/ handling[p]
                   \/ \E q \in Procs : pc[q] = "kill" /\ i[q] = s

(* No client sees twice what a user said once, however many signals come.  *)
ShownOnce ==
    [][\A p \in Procs :
          pending[p] /\ ~pending'[p] /\ handling'[p] /\ pc[p] # "homed"
              => box[uid[p]] \notin shown[p]]_vars

-----------------------------------------------------------------------------
(* project2_spec.txt, 70: all IDs must be distinct.                        *)
IdsDistinct ==
    \A p, q \in Procs :
        p # q /\ pc[p] \in Serving /\ pc[q] \in Serving => uid[p] # uid[q]

(* project2_spec.txt, 193-195: A waits for B to consume messages before it *)
(* sends more; here, for one at least.                                     *)
MessageKept ==
    [][\A s \in Slots :
          LET p == pid[s]
          IN  p # NoProc /\ pc[p] = "prompt" /\ box[s].kind = "said" /\ box'[s] # box[s]
                  => box[s] \in shown[p]]_vars
=============================================================================
