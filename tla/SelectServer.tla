---------------------------- MODULE SelectServer ----------------------------
(***************************************************************************)
(* The users of the single-process chat shell (Project2/select): logging   *)
(* in and out, names, environment variables and the pipes between users.   *)
(*                                                                         *)
(* One process serves every client.  It takes all the lines one client has *)
(* sent in a batch, and only then looks at another socket, so a step here  *)
(* is an accept, the start or the end of a batch, or one line of it.       *)
(* A pipe from a to b is a FIFO in the file system, file[a][b], that the   *)
(* server opens for its reader at once, fifofd[b][a].  Which socket is     *)
(* served next is the subject of SelectLoop, what a line does with its     *)
(* numbered pipes that of LineList.                                        *)
(***************************************************************************)
EXTENDS Naturals, Sequences

CONSTANTS
    Slots,       \* the ids of clidata that clients use (1..30 in the code)
    Names,       \* the names clients ask for
    NoName,      \* "(no name)"
    Unnamed,     \* the empty name of a record nobody has used
    Vars,        \* environment variables other than PATH that clients set
    Mixes,       \* sets of kinds of lines that clients send
    MaxSession,  \* bound: logins
    MaxFifo,     \* bound: pipes ever made
    MaxBatch     \* bound: lines in a batch

ASSUME SelectServerAssumption ==
    /\ Slots \subseteq Nat \ {0}
    /\ NoName \notin Names
    /\ Unnamed \notin Names \union {NoName}
    /\ Mixes \subseteq SUBSET {"exit", "talk", "name", "setenv", "printenv", "pipe"}
    /\ {MaxSession, MaxFifo, MaxBatch} \subseteq Nat

VARIABLES
    kinds,      \* the kinds of lines sent in this behaviour
    sess,       \* sess[u]: the login clidata[u] belongs to, 0 when its uid is -1
    name,       \* name[u]: clidata[u].name, kept when the user leaves
    env,        \* env[u][v]: the login that set v in clidata[u], or 0
    penv,       \* penv[v]: where the process has its value of v from
    file,       \* file[a][b]: the FIFO named .atob, 0 if there is none
    fifofd,     \* fifofd[b][a]: the FIFO clidata[b].fifofd[a] is open on, or 0
    made,       \* history: made[f] is the [from, to] logins of FIFO f
    taken,      \* history: the FIFOs announced as received
    sb_data,    \* the global of that name, 0 for -1
    serving,    \* the user whose batch is served, 0 between batches
    left,       \* lines of the batch still to come
    logins,     \* history: number of logins
    news        \* what the last step made the server say, in order

vars == <<kinds, sess, name, env, penv, file, fifofd, made, taken,
          sb_data, serving, left, logins, news>>

users  == <<kinds, sess, name, logins>>
pipes  == <<file, fifofd, made, taken, sb_data>>
environ == <<env, penv>>

Online(u) == sess[u] # 0

(* The values of a variable are told apart by who set them.  Those of the  *)
(* process come from the environment it was started in, from the blanking  *)
(* of clean_clienv, or from a client.                                      *)
Inherited == [by |-> "server", login |-> 0]
Blank     == [by |-> "blank", login |-> 0]
By(n)     == [by |-> "client", login |-> n]

(* The symbols that can end the first command of a line.                   *)
Second == {[kind |-> k, who |-> n] : k \in {"from", "to"}, n \in Slots}
              \union {[kind |-> k, who |-> 0] : k \in {"none", "file"}}

Init ==
    /\ kinds \in Mixes
    /\ sess = [u \in Slots |-> 0]
    /\ name = [u \in Slots |-> Unnamed]
    /\ env = [u \in Slots |-> [v \in Vars |-> 0]]
    /\ penv = [v \in Vars |-> Inherited]
    /\ file = [a \in Slots |-> [b \in Slots |-> 0]]
    /\ fifofd = [b \in Slots |-> [a \in Slots |-> 0]]
    /\ made = <<>>
    /\ taken = {}
    /\ sb_data = 0
    /\ serving = 0
    /\ left = 0
    /\ logins = 0
    /\ news = <<>>

-----------------------------------------------------------------------------
(* Logging in, batches, logging out.                                       *)

(* client_init takes the first slot whose uid is -1.                       *)
client_init(u) ==
    /\ ~Online(u)
    /\ \A w \in Slots : w < u => Online(w)
    /\ logins' = logins + 1
    /\ sess' = [sess EXCEPT ![u] = logins + 1]
    /\ name' = [name EXCEPT ![u] = NoName]
    /\ UNCHANGED kinds

Accept ==
    /\ serving = 0
    /\ logins < MaxSession
    /\ \E u \in Slots : client_init(u)
    /\ news' = <<[kind |-> "entered", login |-> logins + 1]>>
    /\ UNCHANGED <<environ, pipes, serving, left>>

(* set_clienv: the variables of the client go to the process.              *)
set_clienv(u) ==
    penv' = [v \in Vars |-> IF env[u][v] # 0 THEN By(env[u][v]) ELSE penv[v]]

(* (Changed by a mutation: nothing is blanked.)                            *)
clean_clienv_forgotten(u) == penv' = penv

(* clean_clienv: the variables the client has now are blanked.             *)
clean_clienv(u) ==
    penv' = [v \in Vars |-> IF env[u][v] # 0 THEN Blank ELSE penv[v]]

BeginBatch(u) ==
    /\ serving = 0
    /\ Online(u)
    /\ serving' = u
    /\ left' \in 1..MaxBatch
    /\ set_clienv(u)
    /\ news' = <<>>
    /\ UNCHANGED <<users, env, pipes>>

EndBatch ==
    /\ serving # 0
    /\ left = 0
    /\ clean_clienv(serving)
    /\ serving' = 0
    /\ news' = <<>>
    /\ UNCHANGED <<users, env, pipes, left>>

(* A line of the kind c is the next one of the batch.                      *)
Line(c) ==
    /\ c \in kinds
    /\ serving # 0
    /\ left > 0
    /\ left' = left - 1
    /\ UNCHANGED serving

(* (Changed by a mutation: the FIFOs and their descriptors are left.)      *)
clean_cli_keeps_pipes(u) ==
    /\ UNCHANGED <<fifofd, file>>
    /\ sess' = [sess EXCEPT ![u] = 0]
    /\ env' = [env EXCEPT ![u] = [v \in Vars |-> 0]]

(* exit: the pipes to the user go, then its record, the environment with   *)
(* it.  (It is the last line a client sends.)                              *)
clean_cli(u) ==
    /\ fifofd' = [fifofd EXCEPT ![u] = [n \in Slots |-> 0]]
    /\ file' = [a \in Slots |->
                   [file[a] EXCEPT ![u] = IF fifofd[u][a] # 0 THEN 0 ELSE @]]
    /\ sess' = [sess EXCEPT ![u] = 0]
    /\ env' = [env EXCEPT ![u] = [v \in Vars |-> 0]]

Exit ==
    /\ Line("exit")
    /\ left = 1
    /\ clean_cli(serving)
    /\ news' = <<[kind |-> "left", login |-> sess[serving]]>>
    /\ UNCHANGED <<kinds, name, logins, penv, made, taken, sb_data>>

-----------------------------------------------------------------------------
(* who, yell, tell; name; setenv, printenv.                                *)

(* who, yell and tell change nothing; tell may find no user.               *)
Talk ==
    /\ Line("talk")
    /\ \E to \in Slots :
          news' = IF Online(to) THEN <<[kind |-> "told", login |-> sess[to]]>>
                                ELSE <<[kind |-> "absent"]>>
    /\ UNCHANGED <<users, environ, pipes>>

(* (Changed by a mutation: the search stops at the user's own slot.)       *)
Name_stops_at_own(n) ==
    /\ Line("name")
    /\ ~\E u \in Slots : u < serving /\ name[u] = n
    /\ name' = [name EXCEPT ![serving] = n]
    /\ news' = <<[kind |-> "named", name |-> n]>>
    /\ UNCHANGED <<kinds, sess, logins, environ, pipes>>

(* name: compared with every record, those of users who left included.     *)
Name(n) ==
    /\ Line("name")
    /\ IF \E u \in Slots : name[u] = n
       THEN news' = <<[kind |-> "exists", name |-> n]>> /\ UNCHANGED name
       ELSE /\ name' = [name EXCEPT ![serving] = n]
            /\ news' = <<[kind |-> "named", name |-> n]>>
    /\ UNCHANGED <<kinds, sess, logins, environ, pipes>>

(* setenv goes to the record only: the process has it from the next batch. *)
Setenv(v) ==
    /\ Line("setenv")
    /\ env' = [env EXCEPT ![serving][v] = sess[serving]]
    /\ news' = <<>>
    /\ UNCHANGED <<users, penv, pipes>>

(* printenv asks the process.                                              *)
Printenv(v) ==
    /\ Line("printenv")
    /\ news' = <<[kind |-> "value", var |-> v, from |-> penv[v]]>>
    /\ UNCHANGED <<users, environ, pipes>>

-----------------------------------------------------------------------------
(* Pipes between users.  A line passes them on in a record, because one    *)
(* line may touch two of them.                                             *)

Now == [file |-> file, fifofd |-> fifofd, made |-> made, sb_data |-> sb_data]

(* pipe_to_user succeeds if the receiver is there and mknod does not find  *)
(* the name in use; the reading end is opened if it is not held.           *)
CanPipeTo(p, u, m) == Online(m) /\ p.file[u][m] = 0

pipe_to_user(p, u, m) ==
    IF CanPipeTo(p, u, m)
    THEN LET f == Len(p.made) + 1
         IN  [file    |-> [p.file EXCEPT ![u][m] = f],
              fifofd  |-> [p.fifofd EXCEPT ![m][u] = IF @ = 0 THEN f ELSE @],
              made    |-> Append(p.made, [from |-> sess[u], to |-> sess[m]]),
              sb_data |-> p.sb_data]
    ELSE p

pipe_from_user(p, u, n) == p.fifofd[u][n] # 0

(* (Changed by a mutation: the descriptor stays in the record.)            *)
Consume_keeps_fd(p, u, n) == [p EXCEPT !.file[n][u] = 0]

(* What execute_cmdline leaves of a pipe that was read.                    *)
Consume(p, u, n) ==
    [file    |-> [p.file EXCEPT ![n][u] = 0],
     fifofd  |-> [p.fifofd EXCEPT ![u][n] = 0],
     made    |-> p.made,
     sb_data |-> p.sb_data]

(* symbol_chk looks for a second symbol in the first command; its return   *)
(* value is 0 when a pipe to read from is missing, because nothing else    *)
(* has been put in the return register.                                    *)
symbol_chk(p, u, s) ==
    CASE s.kind = "none" -> 0
      [] s.kind = "file" -> 3
      [] s.kind = "to"   -> 2
      [] s.kind = "from" -> IF pipe_from_user(p, u, s.who) THEN 1 ELSE 0

Complaint(p, u, s) ==
    CASE s.kind = "to" /\ ~Online(s.who)                     -> <<[kind |-> "absent"]>>
      [] s.kind = "to" /\ Online(s.who) /\ p.file[u][s.who] # 0
                                                             -> <<[kind |-> "inuse"]>>
      [] s.kind = "from" /\ ~pipe_from_user(p, u, s.who)     -> <<[kind |-> "nopipe"]>>
      [] OTHER                                               -> <<>>

AfterSymbol(p, u, s) ==
    CASE s.kind = "to" /\ CanPipeTo(p, u, s.who) ->
            [pipe_to_user(p, u, s.who) EXCEPT !.sb_data = s.who]
      [] s.kind = "from" /\ pipe_from_user(p, u, s.who) ->
            [p EXCEPT !.sb_data = s.who]
      [] OTHER -> p

Commit(p) ==
    /\ file' = p.file
    /\ fifofd' = p.fifofd
    /\ made' = p.made
    /\ sb_data' = p.sb_data

Received(p, u, n) == [kind |-> "received", from |-> n, fifo |-> p.fifofd[u][n]]
Piped(m, f)       == [kind |-> "piped", to |-> m, fifo |-> f]
Output            == [kind |-> "output"]

FifosOf(said, k) == {said[i].fifo : i \in {j \in DOMAIN said : said[j].kind = k}}

Say(said) ==
    /\ news' = said
    /\ taken' = taken \union FifosOf(said, "received")

(* A refused symbol answers "Illegal Symbol" and drops the rest of the     *)
(* batch with the line.                                                    *)
Illegal(p, said) ==
    /\ Commit(p)
    /\ Say(said \o <<[kind |-> "illegal"]>>)
    /\ left' = 0

(* (Changed by a mutation: the batch is not at its end with the last line.) *)
PipeLine_past_end ==
    /\ "pipe" \in kinds
    /\ serving # 0
    /\ Len(made) + 2 <= MaxFifo
    /\ UNCHANGED <<users, environ, serving>>

PipeLine ==
    /\ "pipe" \in kinds
    /\ serving # 0
    /\ left > 0
    /\ Len(made) + 2 <= MaxFifo
    /\ UNCHANGED <<users, environ, serving>>

(* A line that ends in >m.                                                 *)
PipeTo(m, s) ==
    LET u    == serving
        p1   == pipe_to_user(Now, u, m)
        code == symbol_chk(p1, u, s)
        p2   == AfterSymbol(p1, u, s)
    IN  /\ PipeLine
        /\ IF ~CanPipeTo(Now, u, m)
           THEN /\ Say(<<[kind |-> IF Online(m) THEN "inuse" ELSE "absent"]>>)
                /\ left' = left - 1
                /\ UNCHANGED <<file, fifofd, made, sb_data>>
           ELSE IF code > 1
           THEN Illegal(p2, Complaint(p1, u, s))
           ELSE /\ Commit(IF code = 1 THEN Consume(p2, u, p2.sb_data) ELSE p2)
                /\ Say(Complaint(p1, u, s) \o <<Output>>
                       \o (IF code = 1 THEN <<Received(p2, u, p2.sb_data)>> ELSE <<>>)
                       \o <<Piped(m, p2.file[u][m])>>)
                /\ left' = left - 1

(* A line that ends in <n.                                                 *)
PipeFrom(n, s) ==
    LET u    == serving
        code == symbol_chk(Now, u, s)
        p    == AfterSymbol(Now, u, s)
        f    == IF Len(p.made) > Len(made) THEN Len(p.made) ELSE 0
    IN  /\ PipeLine
        /\ IF ~pipe_from_user(Now, u, n)
           THEN /\ Say(<<[kind |-> "nopipe"]>>)
                /\ left' = left - 1
                /\ UNCHANGED <<file, fifofd, made, sb_data>>
           ELSE IF code = 1
           THEN Illegal(p, Complaint(Now, u, s))
           ELSE /\ Commit(Consume(p, u, n))
                /\ Say(Complaint(Now, u, s) \o <<Received(Now, u, n), Output>>
                       \o (IF code = 2 THEN <<Piped(p.sb_data, f)>> ELSE <<>>))
                /\ left' = left - 1

(* A line that ends in neither, with a symbol in its first command.        *)
OtherLine(s) ==
    LET u    == serving
        code == symbol_chk(Now, u, s)
        p    == AfterSymbol(Now, u, s)
    IN  /\ PipeLine
        /\ IF code > 1
           THEN Illegal(p, Complaint(Now, u, s))
           ELSE /\ Commit(IF code = 1 THEN Consume(p, u, p.sb_data) ELSE p)
                /\ Say(Complaint(Now, u, s)
                       \o (IF code = 1 THEN <<Received(p, u, p.sb_data)>> ELSE <<>>)
                       \o <<Output>>)
                /\ left' = left - 1

-----------------------------------------------------------------------------
Next ==
    \/ Accept
    \/ \E u \in Slots : BeginBatch(u)
    \/ EndBatch
    \/ Exit
    \/ Talk
    \/ \E n \in Names : Name(n)
    \/ \E v \in Vars : Setenv(v) \/ Printenv(v)
    \/ \E m \in Slots, s \in Second : PipeTo(m, s) \/ PipeFrom(m, s)
    \/ \E s \in Second : OtherLine(s)

Spec == Init /\ [][Next]_vars

-----------------------------------------------------------------------------
(* Properties.                                                             *)

Fifos == 0..MaxFifo

TypeOK ==
    /\ sess \in [Slots -> 0..MaxSession]
    /\ name \in [Slots -> Names \union {NoName, Unnamed}]
    /\ kinds \in Mixes
    /\ env \in [Slots -> [Vars -> 0..MaxSession]]
    /\ penv \in [Vars -> {Inherited, Blank} \union {By(n) : n \in 1..MaxSession}]
    /\ file \in [Slots -> [Slots -> Fifos]]
    /\ fifofd \in [Slots -> [Slots -> Fifos]]
    /\ made \in Seq([from : 1..MaxSession, to : 1..MaxSession])
    /\ taken \subseteq Fifos
    /\ sb_data \in Slots \union {0}
    /\ serving \in Slots \union {0}
    /\ left \in 0..MaxBatch
    /\ logins \in 0..MaxSession

(* The names in the file system and the descriptors of the receivers agree *)
(* (pipe_to_user, clean_cli and four places of recv_cli_cmd keep both): a  *)
(* pipe that refuses a second sender can be read, and it is the one read.  *)
FifoConsistent == \A a, b \in Slots : file[a][b] = fifofd[b][a]

(* Whoever gets a slot gets nothing of its earlier users: every pipe kept  *)
(* in a record was sent to the login that has the record now, and every    *)
(* environment variable in it was set by that login.  (append, 167-171)    *)
RecordIsOwn ==
    \A u \in Slots :
        /\ \A n \in Slots :
              fifofd[u][n] # 0 => Online(u) /\ made[fifofd[u][n]].to = sess[u]
        /\ \A v \in Vars : env[u][v] \in {0, sess[u]}

(* What is in a record is the user's own, and agrees with the directory.   *)
RecordsAgree == FifoConsistent /\ RecordIsOwn

(* A pipe that waits is neither overwritten nor removed by anybody but its *)
(* reader, whatever symbols a line has and whether it is refused or not;   *)
(* and a pipe is announced as received once, by the login it was sent to.  *)
(* (append, 227: a pipe can be taken only one time)                        *)
OneReader ==
    [][/\ \A a, b \in Slots :
             file[a][b] # 0 /\ file'[a][b] # file[a][b]
                 => serving = b /\ file'[a][b] = 0
       /\ \A f \in FifosOf(news', "received") :
             f # 0 /\ f \notin taken /\ made'[f].to = sess[serving]]_vars

(* Two users who are logged in never have the same name, except no name.   *)
NamesDistinct ==
    \A u, w \in Slots :
        u # w /\ Online(u) /\ Online(w) /\ name[u] = name[w] => name[u] = NoName

(* A value that a logged-in user has set is in the environment of the      *)
(* process only while that user is served.                                 *)
ValuesOfServed ==
    \A v \in Vars, w \in Slots : Online(w) /\ penv[v] = By(sess[w]) => serving = w

-----------------------------------------------------------------------------
(* What the assignment says of the server and the code does not do; "append" *)
(* is Project2/spec/project2_spec_append.txt.                              *)

(* append, 14: every client has its own environment variables settings.    *)
OwnValues ==
    \A v \in Vars :
        serving # 0 /\ Online(serving) /\ penv[v].by = "client"
            => penv[v].login = sess[serving]
=============================================================================
