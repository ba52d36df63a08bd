------------------------------ MODULE ShmPipes ------------------------------
(***************************************************************************)
(* The chat shell with one process per client (Project2/shm): the pipes    *)
(* between users.  A line that ends in >B makes the FIFO .AtoB, signals    *)
(* SIGPIPE to B and opens it for writing, which waits for a reader; the    *)
(* handler sigPipe of B opens every FIFO to B that it finds for reading,   *)
(* and keeps the descriptor in the shared record of B.  A line with <A     *)
(* reads that descriptor, forgets it and then removes the FIFO.            *)
(*                                                                         *)
(* Records and FIFOs outlive the processes; descriptors do not.  A step is *)
(* one access to the memory or the directory, or one turn of the loop of   *)
(* sigPipe or clean_cli.  The races of client_init, and messages, are the  *)
(* subject of ShmServer: here a record is found and claimed in one step.   *)
(* So is a record given up: between the stores to pid and to uid (242-243) *)
(* a user could be found who has no process any more, and be signalled as  *)
(* -1, and the uid of a newcomer could be wiped; the model has neither.    *)
(***************************************************************************)
EXTENDS Naturals, FiniteSets

CONSTANTS
    Procs,      \* the processes the server forks, one per connection
    NoProc,     \* the pid and uid -1
    MaxSlot,    \* the records are those of 1..MaxSlot (30 in the code)
    MaxMade,    \* bounds the FIFOs made in a behaviour
    MaxLines,   \* bounds the lines typed in a behaviour
    Lines,      \* the lines users type
    Kinds       \* the kinds of behaviours, each a set of Manners

Slots == 1..MaxSlot
Fifos == 1..MaxMade

(* What a symbol of a line says: nothing, >slot or <slot.                  *)
None    == [dir |-> "none", slot |-> 0]
To(s)   == [dir |-> "to", slot |-> s]
From(s) == [dir |-> "from", slot |-> s]
Symbols == {None} \union {To(s) : s \in Slots} \union {From(s) : s \in Slots}

(* A line: the symbol at its end, and the symbol symbol_chk finds at the   *)
(* end of its first command when that is gone.                             *)
AllLines == [last : Symbols, sym : Symbols]

(* "patient": users take a pipe only when "just piped" has been announced. *)
(* "polite": nobody leaves while a line that pipes to him is under way.    *)
(* "apart": no signal comes to a process between the moment its record     *)
(* forgets a FIFO that a line has taken and the removal of the FIFO.       *)
Manners == {"patient", "polite", "apart"}

ASSUME ShmPipesAssumption ==
    /\ NoProc \notin Procs
    /\ {MaxSlot, MaxMade, MaxLines} \subseteq Nat \ {0}
    /\ Lines \subseteq AllLines
    /\ Kinds \subseteq SUBSET Manners

VARIABLES
    manners,    \* what users and time are trusted with in this behaviour
    early,      \* history: the records taken before the process that had
                \* given them up was through with them
    pc,         \* pc[p]: where the process p is
    uid,        \* uid[p]: its global uid, 0 before it has come
    at,         \* at[p]: the loop variable of clean_cli
    job,        \* job[p]: the line it works on, see Jobs
    user,       \* user[s]: shmdata[s].pid and .uid
    fifofd,     \* fifofd[s][a]: shmdata[s].fifofd[a]
    name,       \* name[a][b]: the FIFO that .atob names, or 0
    pipe,       \* pipe[f]: the history of the FIFO f, and what is in it
    reads,      \* reads[f]: the processes that have f open for reading
    pending,    \* pending[p]: SIGPIPE has been sent to p and not handled
    hand,       \* hand[p]: the loop variable of sigPipe, 0 outside it
    lines       \* how many lines have been typed

vars == <<manners, early, pc, uid, at, job, user, fifofd, name, pipe, reads, pending, hand,
          lines>>

records == <<user, fifofd>>
files   == <<name, pipe, reads>>
signals == <<pending, hand>>

(* A descriptor in a record is a number, which means something else to     *)
(* another process: nothing, or a FIFO that this one has open.             *)
NoFd     == [by |-> NoProc, fifo |-> 0]
Fd(p, f) == [by |-> p, fifo |-> f]
Means(p, fd) ==
    IF fd.by = p THEN {fd.fifo} ELSE {0} \union {f \in Fifos : fd # NoFd /\ p \in reads[f]}
Fds      == {NoFd} \union {Fd(p, f) : p \in Procs, f \in Fifos}

(* Of a line: the line itself, which of its symbols is being looked at,    *)
(* the slot whose FIFO curnode->filename is and the FIFO that open has     *)
(* found, the slot whose pipe it takes and curnode->fd_readout.            *)
Jobs == [line : AllLines, stage : {"last", "sym"}, out : 0..MaxSlot, end : 0..MaxMade,
         in : 0..MaxSlot, input : Fds]
Work(l) == [line |-> l, stage |-> "last", out |-> 0, end |-> 0, in |-> 0, input |-> NoFd]
Idle    == Work([last |-> None, sym |-> None])

(* Of a FIFO: who has made it, for whom, what is in it, and whether the    *)
(* line that made it has been announced.                                   *)
Pipes  == [by : Procs \union {NoProc}, for : Procs \union {NoProc},
           state : {"empty", "full", "taken"}, told : BOOLEAN]
Unused == [by |-> NoProc, for |-> NoProc, state |-> "empty", told |-> FALSE]

Locations == {"away", "prompt", "symbol", "mknod", "kill", "open", "blocked", "read",
              "write", "forget", "unlink", "clean", "drop", "remove", "gone", "dead"}
Living    == Locations \ {"away", "gone", "dead"}

Init ==
    /\ manners \in Kinds
    /\ early = {}
    /\ pc = [p \in Procs |-> "away"]
    /\ uid = [p \in Procs |-> 0]
    /\ at = [p \in Procs |-> 1]
    /\ job = [p \in Procs |-> Idle]
    /\ user = [s \in Slots |-> NoProc]
    /\ fifofd = [s \in Slots |-> [a \in Slots |-> NoFd]]
    /\ name = [a \in Slots |-> [b \in Slots |-> 0]]
    /\ pipe = [f \in Fifos |-> Unused]
    /\ reads = [f \in Fifos |-> {}]
    /\ pending = [p \in Procs |-> FALSE]
    /\ hand = [p \in Procs |-> 0]
    /\ lines = 0

Goto(p, l) == pc' = [pc EXCEPT ![p] = l]

(* The handler runs in the middle of everything else its process does, and *)
(* begins when the system call in which the signal was sent or received    *)
(* returns: a process takes no other step in between.                      *)
At(p, l) == pc[p] = l /\ ~pending[p] /\ hand[p] = 0

-----------------------------------------------------------------------------
(* Users.                                                                  *)

(* client_init clears nothing but the pid, the uid and the name, and the   *)
(* process that had the record may be in the midst of clean_cli.           *)
Connect(p) ==
    LET free == {s \in Slots : user[s] = NoProc}
        s    == CHOOSE f \in free : \A g \in free : f <= g
    IN  /\ pc[p] = "away" /\ free # {}
        /\ user' = [user EXCEPT ![s] = p]
        /\ uid' = [uid EXCEPT ![p] = s]
        /\ early' = early \union
              {t \in {s} : \E q \in Procs : pc[q] \in {"drop", "remove"} /\ uid[q] = t}
        /\ Goto(p, "prompt")
        /\ UNCHANGED <<manners, at, job, fifofd, files, signals, lines>>

(* The pipes that the line l of p would take have been announced.          *)
Announced(p, l) ==
    \A a \in Slots :
        LET f == name[a][uid[p]]
        IN  From(a) \in {l.last, l.sym} => f # 0 /\ pipe[f].told

TypeLine(p, l) ==
    /\ At(p, "prompt") /\ lines < MaxLines
    /\ "patient" \in manners => Announced(p, l)
    /\ job' = [job EXCEPT ![p] = Work(l)]
    /\ lines' = lines + 1
    /\ Goto(p, "symbol")
    /\ UNCHANGED <<manners, early, uid, at, records, files, signals>>

Exit(p) ==
    /\ At(p, "prompt")
    /\ Goto(p, "clean")
    /\ UNCHANGED <<manners, early, uid, at, job, records, files, signals, lines>>

-----------------------------------------------------------------------------
(* The symbols of a line: pipe_to_user and pipe_from_user, called for the  *)
(* one at the end and then by symbol_chk.  A line whose last symbol is     *)
(* refused is given up; one that symbol_chk finds illegal is a return from *)
(* recv_cli_cmd: it logs its user out.                                     *)

Symbol(p) == IF job[p].stage = "last" THEN job[p].line.last ELSE job[p].line.sym

Illegal(l, ok) ==
    CASE l.sym.dir = "to"   -> l.last.dir # "from"
      [] l.sym.dir = "from" -> l.last.dir = "from" /\ ok
      [] OTHER              -> FALSE

(* p has dealt with its symbol, which was ok or refused; js are then the   *)
(* jobs of all.                                                            *)
Advance(p, ok, js) ==
    LET j    == js[p]
        next == CASE j.stage = "last" /\ ok  -> "symbol"
                  [] j.stage = "last" /\ ~ok -> "prompt"
                  [] j.stage = "sym" /\ Illegal(j.line, ok) -> "clean"
                  [] j.stage = "sym" /\ ~Illegal(j.line, ok) ->
                        IF j.out # 0 THEN "open" ELSE "read"
    IN  /\ Goto(p, next)
        /\ job' = [js EXCEPT ![p] = IF next \in {"prompt", "clean"} THEN Idle
                                    ELSE [j EXCEPT !.stage = "sym"]]

NoSymbol(p) ==
    /\ At(p, "symbol") /\ Symbol(p).dir = "none"
    /\ Advance(p, TRUE, job)
    /\ UNCHANGED <<manners, early, uid, at, records, files, signals, lines>>

pipe_from_user(p) ==
    LET a  == Symbol(p).slot
        fd == fifofd[uid[p]][a]
    IN  /\ At(p, "symbol") /\ Symbol(p).dir = "from"
        /\ IF fd = NoFd THEN Advance(p, FALSE, job)
           ELSE Advance(p, TRUE, [job EXCEPT ![p].in = a, ![p].input = fd])
        /\ UNCHANGED <<manners, early, uid, at, records, files, signals, lines>>

(* pipe_to_user: is there such a user, make the FIFO, send the signal.     *)
FindUser(p) ==
    /\ At(p, "symbol") /\ Symbol(p).dir = "to"
    /\ IF user[Symbol(p).slot] = NoProc THEN Advance(p, FALSE, job)
       ELSE Goto(p, "mknod") /\ UNCHANGED job
    /\ UNCHANGED <<manners, early, uid, at, records, files, signals, lines>>

Mknod(p) ==
    LET b    == Symbol(p).slot
        free == {f \in Fifos : pipe[f] = Unused}
        f    == CHOOSE g \in free : \A h \in free : g <= h
    IN  /\ At(p, "mknod")
        /\ IF name[uid[p]][b] # 0
           THEN Advance(p, FALSE, job) /\ UNCHANGED <<name, pipe>>
           ELSE /\ free # {}
                /\ name' = [name EXCEPT ![uid[p]][b] = f]
                /\ pipe' = [pipe EXCEPT ![f].by = p, ![f].for = user[b]]
                /\ Goto(p, "kill") /\ UNCHANGED job
        /\ UNCHANGED <<manners, early, uid, at, records, reads, signals, lines>>

(* (Changed by a mutation: the signal goes to the sender's own process.)   *)
Kill_self(p) ==
    LET b  == Symbol(p).slot
        to == user[uid[p]]
        struck == {q \in Procs : to = NoProc /\ pc[q] \in {"read", "write"}}
    IN  /\ At(p, "kill")
        /\ "apart" \in manners /\ to # NoProc => pc[to] # "unlink"
        /\ pending' = [q \in Procs |-> pending[q] \/ (pc[q] \in Living /\
                          IF to = NoProc THEN q # p ELSE q = to)]
        /\ Advance(p, TRUE, [q \in Procs |->
                          CASE q = p -> [job[q] EXCEPT !.out = b]
                            [] q \in struck -> [job[q] EXCEPT !.end = 0, !.input = NoFd]
                            [] OTHER -> job[q]])
        /\ reads' = [f \in Fifos |-> reads[f] \ {q \in struck : job[q].input = Fd(q, f)}]
        /\ UNCHANGED <<manners, early, uid, at, records, name, pipe, hand, lines>>

(* The user may have left: kill(-1) reaches every process there is, shells *)
(* and running commands, and the commands have no handler.                 *)
Kill(p) ==
    LET b  == Symbol(p).slot
        to == user[b]
        struck == {q \in Procs : to = NoProc /\ pc[q] \in {"read", "write"}}
    IN  /\ At(p, "kill")
        /\ "apart" \in manners /\ to # NoProc => pc[to] # "unlink"
        /\ pending' = [q \in Procs |-> pending[q] \/ (pc[q] \in Living /\
                          IF to = NoProc THEN q # p ELSE q = to)]
        /\ Advance(p, TRUE, [q \in Procs |->
                          CASE q = p -> [job[q] EXCEPT !.out = b]
                            [] q \in struck -> [job[q] EXCEPT !.end = 0, !.input = NoFd]
                            [] OTHER -> job[q]])
        /\ reads' = [f \in Fifos |-> reads[f] \ {q \in struck : job[q].input = Fd(q, f)}]
        /\ UNCHANGED <<manners, early, uid, at, records, name, pipe, hand, lines>>

-----------------------------------------------------------------------------
(* execute_cmdline, for a line of one command that reads its input, if the *)
(* line takes a pipe, and then writes its output.                          *)

(* What goes with a process: its descriptors and its signals.              *)
Ends(p, how) ==
    /\ Goto(p, how)
    /\ job' = [job EXCEPT ![p] = Idle]
    /\ reads' = [f \in Fifos |-> reads[f] \ {p}]
    /\ pending' = [pending EXCEPT ![p] = FALSE]

(* open(O_WRONLY) waits until somebody opens the FIFO for reading; if the  *)
(* name has gone it fails, and err_dump ends the process as it stands.     *)
Open(p) ==
    LET f == name[uid[p]][job[p].out]
    IN  /\ At(p, "open")
        /\ IF f = 0 THEN Ends(p, "dead")
           ELSE /\ Goto(p, IF reads[f] = {} THEN "blocked" ELSE "read")
                /\ job' = [job EXCEPT ![p].end = f]
                /\ UNCHANGED <<reads, pending>>
        /\ UNCHANGED <<manners, early, uid, at, records, name, pipe, hand, lines>>

(* A message (sigMsg) interrupts open, which then begins again.            *)
Message(p) ==
    /\ At(p, "blocked")
    /\ Goto(p, "open")
    /\ UNCHANGED <<manners, early, uid, at, job, records, files, signals, lines>>

(* p closes the number fd.                                                 *)
Closes(p, fd) ==
    \E f \in Means(p, fd) :
        reads' = IF f # 0 THEN [reads EXCEPT ![f] = @ \ {p}] ELSE reads

(* The shell has closed its copy of the descriptor when the command is     *)
(* over.  O_NONBLOCK makes the command see an end if nothing is there.     *)
ReadPipe(p) ==
    /\ At(p, "read")
    /\ \E f \in Means(p, job[p].input) :
          pipe' = IF f # 0 /\ pipe[f].state = "full"
                  THEN [pipe EXCEPT ![f].state = "taken"] ELSE pipe
    /\ Goto(p, "write")
    /\ UNCHANGED <<manners, early, uid, at, job, records, name, reads, signals, lines>>

WritePipe(p) ==
    LET f == job[p].end
        takes == job[p].in # 0
    IN  /\ At(p, "write")
        /\ pipe' = IF f = 0 THEN pipe
                   ELSE [pipe EXCEPT ![f].told = TRUE,
                                     ![f].state = IF reads[f] # {} THEN "full" ELSE @]
        /\ Closes(p, job[p].input)
        /\ Goto(p, IF takes THEN "forget" ELSE "prompt")
        /\ job' = IF takes THEN job ELSE [job EXCEPT ![p] = Idle]
        /\ UNCHANGED <<manners, early, uid, at, records, name, signals, lines>>

(* The pipe is forgotten before it is removed.                             *)
Forget(p) ==
    /\ At(p, "forget")
    /\ fifofd' = [fifofd EXCEPT ![uid[p]][job[p].in] = NoFd]
    /\ Goto(p, "unlink")
    /\ UNCHANGED <<manners, early, uid, at, job, user, files, signals, lines>>

(* (Changed by a mutation: the FIFO stays in the directory.)               *)
Unlink_nothing(p) ==
    /\ At(p, "unlink")
    /\ Goto(p, "prompt")
    /\ job' = [job EXCEPT ![p] = Idle]
    /\ UNCHANGED <<manners, early, uid, at, records, name, pipe, reads, signals, lines>>

Unlink(p) ==
    /\ At(p, "unlink")
    /\ name' = [name EXCEPT ![job[p].in][uid[p]] = 0]
    /\ Goto(p, "prompt")
    /\ job' = [job EXCEPT ![p] = Idle]
    /\ UNCHANGED <<manners, early, uid, at, records, pipe, reads, signals, lines>>

-----------------------------------------------------------------------------
(* clean_cli gives the record up and then goes through it.                 *)

Leave(p) ==
    /\ At(p, "clean")
    /\ "polite" \in manners =>
          \A q \in Procs : To(uid[p]) \notin {job[q].line.last, job[q].line.sym}
    /\ user' = [user EXCEPT ![uid[p]] = NoProc]
    /\ Goto(p, "drop")
    /\ UNCHANGED <<manners, early, uid, at, job, fifofd, files, signals, lines>>

(* (Changed by a mutation: descriptors are closed, FIFOs not removed.)     *)
Drop_only(p) ==
    LET fd == fifofd[uid[p]][at[p]]
    IN  /\ At(p, "drop") /\ at[p] <= MaxSlot
        /\ fifofd' = [fifofd EXCEPT ![uid[p]][at[p]] = NoFd]
        /\ Closes(p, fd)
        /\ at' = [at EXCEPT ![p] = @ + 1] /\ UNCHANGED pc
        /\ UNCHANGED <<manners, early, uid, job, user, name, pipe, signals, lines>>

Drop(p) ==
    LET fd == fifofd[uid[p]][at[p]]
    IN  /\ At(p, "drop") /\ at[p] <= MaxSlot
        /\ fifofd' = [fifofd EXCEPT ![uid[p]][at[p]] = NoFd]
        /\ Closes(p, fd)
        /\ IF fd # NoFd THEN Goto(p, "remove") /\ UNCHANGED at
           ELSE at' = [at EXCEPT ![p] = @ + 1] /\ UNCHANGED pc
        /\ UNCHANGED <<manners, early, uid, job, user, name, pipe, signals, lines>>

Remove(p) ==
    /\ At(p, "remove")
    /\ name' = [name EXCEPT ![at[p]][uid[p]] = 0]
    /\ at' = [at EXCEPT ![p] = @ + 1]
    /\ Goto(p, "drop")
    /\ UNCHANGED <<manners, early, uid, job, records, pipe, reads, signals, lines>>

Gone(p) ==
    /\ At(p, "drop") /\ at[p] > MaxSlot
    /\ Ends(p, "gone")
    /\ UNCHANGED <<manners, early, uid, at, records, name, pipe, hand, lines>>

-----------------------------------------------------------------------------
(* sigPipe.  A signal that comes while it runs is handled after it; an     *)
(* open that it interrupts begins again.                                   *)

Handle(p) ==
    /\ pc[p] \in Living /\ pending[p] /\ hand[p] = 0
    /\ pending' = [pending EXCEPT ![p] = FALSE]
    /\ hand' = [hand EXCEPT ![p] = 1]
    /\ IF pc[p] = "blocked" THEN Goto(p, "open") ELSE UNCHANGED pc
    /\ UNCHANGED <<manners, early, uid, at, job, records, files, lines>>

(* (Changed by a mutation: the loop goes one record too far.)              *)
Look_past(p) ==
    LET i == hand[p]
        f == name[i][uid[p]]
    IN  /\ hand[p] # 0
        /\ IF f # 0 /\ fifofd[uid[p]][i] = NoFd
           THEN /\ fifofd' = [fifofd EXCEPT ![uid[p]][i] = Fd(p, f)]
                /\ reads' = [reads EXCEPT ![f] = @ \union {p}]
                /\ pc' = [q \in Procs |-> IF pc[q] = "blocked" /\ job[q].end = f
                                          THEN "read" ELSE pc[q]]
           ELSE UNCHANGED <<fifofd, reads, pc>>
        /\ hand' = [hand EXCEPT ![p] = IF i <= MaxSlot THEN i + 1 ELSE 0]
        /\ UNCHANGED <<manners, early, uid, at, job, user, name, pipe, pending, lines>>

(* To open a FIFO for reading lets those go on that wait to write to it.   *)
Look(p) ==
    LET i == hand[p]
        f == name[i][uid[p]]
    IN  /\ hand[p] # 0
        /\ IF f # 0 /\ fifofd[uid[p]][i] = NoFd
           THEN /\ fifofd' = [fifofd EXCEPT ![uid[p]][i] = Fd(p, f)]
                /\ reads' = [reads EXCEPT ![f] = @ \union {p}]
                /\ pc' = [q \in Procs |-> IF pc[q] = "blocked" /\ job[q].end = f
                                          THEN "read" ELSE pc[q]]
           ELSE UNCHANGED <<fifofd, reads, pc>>
        /\ hand' = [hand EXCEPT ![p] = IF i < MaxSlot THEN i + 1 ELSE 0]
        /\ UNCHANGED <<manners, early, uid, at, job, user, name, pipe, pending, lines>>

-----------------------------------------------------------------------------
Code(p) ==
    \/ NoSymbol(p) \/ pipe_from_user(p) \/ FindUser(p) \/ Mknod(p) \/ Kill(p)
    \/ Open(p) \/ ReadPipe(p) \/ WritePipe(p) \/ Forget(p) \/ Unlink(p)
    \/ Leave(p) \/ Drop(p) \/ Remove(p) \/ Gone(p)

sigPipe(p) == Handle(p) \/ Look(p)

Environment(p) == Connect(p) \/ Exit(p) \/ Message(p) \/ \E l \in Lines : TypeLine(p, l)

Next == \E p \in Procs : Environment(p) \/ Code(p) \/ sigPipe(p)

Spec == Init /\ [][Next]_vars

-----------------------------------------------------------------------------
(* Properties.                                                             *)

(* That a record is taken before it is clean is not for users to avoid:    *)
(* the code leaves it to chance, and then its new user may find pipes of   *)
(* the last one, or lose his own.  The properties speak of the time before.*)
Patient == "patient" \in manners
Polite  == "polite" \in manners
Apart   == "apart" \in manners /\ early = {}

TypeOK ==
    /\ manners \in Kinds
    /\ early \subseteq Slots
    /\ pc \in [Procs -> Locations]
    /\ uid \in [Procs -> 0..MaxSlot]
    /\ at \in [Procs -> 1..MaxSlot + 1]
    /\ job \in [Procs -> Jobs]
    /\ user \in [Slots -> Procs \union {NoProc}]
    /\ fifofd \in [Slots -> [Slots -> Fds]]
    /\ name \in [Slots -> [Slots -> 0..MaxMade]]
    /\ pipe \in [Fifos -> Pipes]
    /\ reads \in [Fifos -> SUBSET Procs]
    /\ pending \in [Procs -> BOOLEAN]
    /\ hand \in [Procs -> 0..MaxSlot]
    /\ lines \in 0..MaxLines

(* No process finds that the FIFO it has made has gone before it could     *)
(* open it, which would end it and leave its record to nobody.  And who    *)
(* waits in open does so for a FIFO that is still in the directory, and    *)
(* the user it is for has a signal to handle or a handler under way that   *)
(* will open it: the sender is not left waiting.  It takes users who wait  *)
(* until a pipe is announced, for others see OpenWorks, and records that   *)
(* are taken only when they are clean.                                     *)
WillOpen(b, a) ==
    \E p \in Procs :
        /\ user[b] = p
        /\ fifofd[b][a] = NoFd
        /\ pending[p] \/ hand[p] \in 1..a

SenderAwaited ==
    Patient /\ Polite /\ Apart => \A p \in Procs :
        /\ pc[p] # "dead"
        /\ pc[p] = "blocked" =>
            /\ job[p].end = name[uid[p]][job[p].out]
            /\ WillOpen(job[p].out, uid[p])

(* When no line is under way and nobody is leaving, directory, records and *)
(* descriptors agree: to each FIFO there is a record that says that the    *)
(* user it is for has it open, and no record says so of anything else.  So *)
(* pipes end with their receiver, and the next user of his record finds it *)
(* clean if he comes when the last has gone, although no process ever      *)
(* clears it at the start.                                                 *)
AtRest == \A p \in Procs :
    pc[p] \in {"away", "prompt", "gone"} /\ ~pending[p] /\ hand[p] = 0

RecordsMatch ==
    Polite /\ Apart /\ AtRest =>
        \A a, b \in Slots :
            IF name[a][b] = 0 THEN fifofd[b][a] = NoFd
            ELSE /\ user[b] # NoProc
                 /\ fifofd[b][a] = Fd(user[b], name[a][b])
                 /\ user[b] \in reads[name[a][b]]

(* A command that takes a pipe reads what a line was announced to have     *)
(* sent to this user, all of it, and nobody has read it before.  Whoever   *)
(* takes a record before it is clean may find a pipe to the last user.     *)
ReadsWhole ==
    [][Patient /\ Polite /\ Apart => \A p \in Procs :
          pc[p] = "read" /\ pc'[p] = "write" /\ job[p].in # 0
            => LET f == job[p].input.fifo
               IN  /\ pipe[f].for = p /\ pipe[f].told
                   /\ pipe[f].state = "full" /\ pipe'[f].state = "taken"]_vars

-----------------------------------------------------------------------------
(* netshell.c, 31 and 55-60: the signal is sent before the FIFO is opened  *)
(* for writing, to avoid that open waits or fails.                         *)
OpenWorks == \A p \in Procs : pc[p] # "dead"
=============================================================================
