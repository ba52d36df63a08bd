------------------------- MODULE SelectServerProofs -------------------------
(***************************************************************************)
(* The users of the single-process chat shell, for any number of slots,    *)
(* names, variables, logins and pipes: what is in the record of a user is  *)
(* that user's own.                                                        *)
(*                                                                         *)
(* The pipes are followed through a line as the record that Now begins and *)
(* Commit ends (SoundPipes); what makes a pipe, takes one, or removes      *)
(* those of a user keeps it sound.  For the environment of the process the *)
(* argument is that a value of a user who is logged in is still in the     *)
(* user's record, so that clean_clienv finds and blanks it.                *)
(***************************************************************************)
EXTENDS SelectServer, TLAPS

Pairs  == [Slots -> [Slots -> Fifos]]
Ends   == [from : 1..MaxSession, to : 1..MaxSession]
States == [file : Pairs, fifofd : Pairs, made : Seq(Ends),
           sb_data : Slots \union {0}]

(* The pipes of a state, or at some point of a line, with the set of those *)
(* announced as received and who has which record.                         *)
SoundPipes(p, got, login) ==
    /\ p \in States
    /\ Len(p.made) <= MaxFifo
    /\ \A f \in got : f \in 0..Len(p.made)
    /\ \A a, b \in Slots : p.file[a][b] = p.fifofd[b][a]
    /\ \A a, b \in Slots : p.fifofd[a][b] # 0 =>
          /\ p.fifofd[a][b] \in 1..Len(p.made) \ got
          /\ login[a] # 0
          /\ p.made[p.fifofd[a][b]].to = login[a]
    /\ \A a, b, c, d \in Slots :
          p.fifofd[a][b] # 0 /\ p.fifofd[a][b] = p.fifofd[c][d] => a = c /\ b = d

Pipes == SoundPipes(Now, taken, sess)

Users ==
    /\ \A u \in Slots : sess[u] <= logins
    /\ \A u, w \in Slots : Online(u) /\ sess[u] = sess[w] => u = w
    /\ serving # 0 /\ left > 0 => Online(serving)

AllNames ==
    \A u, w \in Slots : u # w /\ name[u] = name[w] => name[u] \in {NoName, Unnamed}

OnlineNamed == \A u \in Slots : Online(u) => name[u] # Unnamed

Values ==
    /\ \A u \in Slots, v \in Vars : env[u][v] \in {0, sess[u]}
    /\ \A v \in Vars, n \in 0..MaxSession : penv[v] = By(n) => n <= logins
    /\ \A v \in Vars, w \in Slots :
          Online(w) /\ penv[v] = By(sess[w]) => serving = w /\ env[w][v] # 0

IInv == TypeOK /\ Pipes /\ Users /\ AllNames /\ OnlineNamed /\ Values

-----------------------------------------------------------------------------
(* What a line does to the pipes, step by step.                            *)

(* The pipes of a line that has taken none yet: those there were are left  *)
(* as they were, and k more can be made.                                   *)
Grown(p, k) ==
    /\ SoundPipes(p, taken, sess)
    /\ Len(p.made) + k <= MaxFifo
    /\ \A a, b \in Slots : file[a][b] # 0 => p.file[a][b] = file[a][b]

(* The pipes at the end of a line of u that received those in fs.          *)
LineDone(p, fs, u) ==
    /\ SoundPipes(p, taken \union fs, sess)
    /\ \A a, b \in Slots : file[a][b] # 0 /\ p.file[a][b] # file[a][b]
                              => u = b /\ p.file[a][b] = 0
    /\ \A f \in fs : f # 0 /\ f \notin taken /\ p.made[f].to = sess[u]

LEMMA Bounds ==
    /\ MaxFifo \in Nat /\ MaxSession \in Nat /\ MaxBatch \in Nat
    /\ \A u \in Slots : u \in Nat /\ u # 0
    /\ Fifos = 0..MaxFifo
  BY SelectServerAssumption DEF Fifos

(* pipe_to_user makes a pipe with a number of its own for the receiver who *)
(* is logged in, and changes no other.                                     *)
LEMMA Made ==
    ASSUME NEW p, p \in States, Len(p.made) < MaxFifo,
           NEW u \in Slots, NEW m \in Slots,
           p.file[u][m] = 0, p.fifofd[m][u] = 0,
           sess \in [Slots -> 0..MaxSession], Online(u), Online(m),
           NEW q, q = pipe_to_user(p, u, m),
           NEW f, f = Len(p.made) + 1
    PROVE  /\ q \in States
           /\ q.sb_data = p.sb_data
           /\ Len(q.made) = f
           /\ f \in Nat /\ f # 0 /\ Len(p.made) \in Nat
           /\ \A n \in 1..Len(p.made) : q.made[n] = p.made[n]
           /\ q.made[f].to = sess[m]
           /\ \A a, b \in Slots : q.file[a][b] = IF a = u /\ b = m THEN f ELSE p.file[a][b]
           /\ \A a, b \in Slots : q.fifofd[a][b] = IF a = m /\ b = u THEN f ELSE p.fifofd[a][b]
  <1> DEFINE e == [from |-> sess[u], to |-> sess[m]]
  <1>1. /\ p.made \in Seq(Ends) /\ Len(p.made) \in Nat /\ f \in Fifos /\ f # 0 /\ f \in Nat
        /\ p.file \in Pairs /\ p.fifofd \in Pairs /\ p.sb_data \in Slots \union {0}
    BY Bounds DEF States
  <1>2. q = [file    |-> [p.file EXCEPT ![u][m] = f],
             fifofd  |-> [p.fifofd EXCEPT ![m][u] = IF @ = 0 THEN f ELSE @],
             made    |-> Append(p.made, e),
             sb_data |-> p.sb_data]
    BY DEF pipe_to_user, CanPipeTo
  <1>3. e \in Ends /\ e.to = sess[m]
    BY Bounds DEF Online, Ends
  <1>4. /\ q.made = Append(p.made, e)
        /\ q.file = [p.file EXCEPT ![u][m] = f]
        /\ q.fifofd = [p.fifofd EXCEPT ![m][u] = f]
        /\ q.sb_data = p.sb_data
    BY <1>1, <1>2 DEF Pairs
  <1>5. q.file \in Pairs /\ q.fifofd \in Pairs /\ q.made \in Seq(Ends)
    BY <1>1, <1>3, <1>4 DEF Pairs
  <1>6. q \in States
    BY <1>1, <1>2, <1>5 DEF States
  <1>7. /\ Len(q.made) = Len(p.made) + 1
        /\ \A n \in 1..Len(p.made) : q.made[n] = p.made[n]
        /\ q.made[Len(p.made) + 1] = e
    BY <1>1, <1>3, <1>4
  <1>8. /\ \A a, b \in Slots : q.file[a][b] = IF a = u /\ b = m THEN f ELSE p.file[a][b]
        /\ \A a, b \in Slots : q.fifofd[a][b] = IF a = m /\ b = u THEN f ELSE p.fifofd[a][b]
    BY <1>1, <1>4 DEF Pairs
  <1> QED
    BY <1>1, <1>3, <1>4, <1>6, <1>7, <1>8

(* A pipe that pipe_to_user makes leaves those that wait as they are.      *)
LEMMA MadeSound ==
    ASSUME sess \in [Slots -> 0..MaxSession],
           NEW k \in Nat, NEW p, Grown(p, k + 1),
           NEW u \in Slots, Online(u), NEW m \in Slots, CanPipeTo(p, u, m)
    PROVE  Grown(pipe_to_user(p, u, m), k)
  <1> DEFINE f == Len(p.made) + 1
             q == pipe_to_user(p, u, m)
  <1>1. /\ SoundPipes(p, taken, sess) /\ p \in States /\ Len(p.made) \in Nat
        /\ p.file[u][m] = 0 /\ Online(m) /\ f + k <= MaxFifo
        /\ \A a, b \in Slots : file[a][b] # 0 => p.file[a][b] = file[a][b]
    BY Bounds DEF Grown, SoundPipes, States, CanPipeTo
  <1>2. p.fifofd[m][u] = 0
    BY <1>1 DEF SoundPipes
  <1>3. Len(p.made) < MaxFifo
    BY <1>1, Bounds
  <1>4. /\ q \in States /\ Len(q.made) = f /\ q.made[f].to = sess[m] /\ f \in Nat /\ f # 0
        /\ \A n \in 1..Len(p.made) : q.made[n] = p.made[n]
        /\ \A a, b \in Slots : q.file[a][b] = IF a = u /\ b = m THEN f ELSE p.file[a][b]
        /\ \A a, b \in Slots : q.fifofd[a][b] = IF a = m /\ b = u THEN f ELSE p.fifofd[a][b]
    BY <1>1, <1>2, <1>3, Made
  <1> HIDE DEF q
  <1>5. f \in 1..f /\ \A n \in 1..Len(p.made) : n \in 1..f /\ n # f /\ n \in Nat
    BY <1>1
  <1>6. f \notin taken /\ \A x \in taken : x \in 0..f
    BY <1>1, <1>5 DEF SoundPipes
  <1>7. /\ Len(q.made) <= MaxFifo
        /\ \A x \in taken : x \in 0..Len(q.made)
    BY <1>1, <1>4, <1>6, Bounds
  <1>8. \A a, b \in Slots : q.file[a][b] = q.fifofd[b][a]
    BY <1>1, <1>4 DEF SoundPipes
  <1>9. ASSUME NEW a \in Slots, NEW b \in Slots, q.fifofd[a][b] # 0
        PROVE  /\ q.fifofd[a][b] \in 1..Len(q.made) \ taken
               /\ sess[a] # 0
               /\ q.made[q.fifofd[a][b]].to = sess[a]
    <2>1. CASE a = m /\ b = u
      BY <1>1, <1>4, <1>5, <1>6, <2>1 DEF Online
    <2>2. CASE ~(a = m /\ b = u)
      <3> DEFINE n == p.fifofd[a][b]
      <3>1. q.fifofd[a][b] = n /\ n # 0
        BY <1>4, <1>9, <2>2
      <3>2. n \in 1..Len(p.made) \ taken /\ sess[a] # 0 /\ p.made[n].to = sess[a]
        BY <1>1, <3>1 DEF SoundPipes
      <3> HIDE DEF n
      <3>3. n \in 1..f /\ n \notin taken /\ q.made[n] = p.made[n]
        BY <1>4, <1>5, <3>2
      <3> QED
        BY <1>4, <3>1, <3>2, <3>3
    <2> QED
      BY <2>1, <2>2
  <1>10. \A a, b, c, d \in Slots :
           q.fifofd[a][b] # 0 /\ q.fifofd[a][b] = q.fifofd[c][d] => a = c /\ b = d
    <2>1. \A a, b \in Slots : p.fifofd[a][b] # f
      BY <1>1, <1>4, <1>5 DEF SoundPipes
    <2>2. \A a, b, c, d \in Slots :
             p.fifofd[a][b] # 0 /\ p.fifofd[a][b] = p.fifofd[c][d] => a = c /\ b = d
      BY <1>1 DEF SoundPipes
    <2> QED
      BY <1>4, <2>1, <2>2
  <1>11. SoundPipes(q, taken, sess)
    BY <1>4, <1>7, <1>8, <1>9, <1>10 DEF SoundPipes
  <1>12. \A a, b \in Slots : file[a][b] # 0 => q.file[a][b] = file[a][b]
    BY <1>1, <1>4
  <1> QED
    BY <1>1, <1>4, <1>11, <1>12 DEF Grown, q

(* What a symbol in the first command leaves of the pipes; when symbol_chk *)
(* returns 1, there is a pipe to read from the user in sb_data.            *)
LEMMA SymbolSound ==
    ASSUME sess \in [Slots -> 0..MaxSession],
           NEW k \in Nat, NEW p, Grown(p, k + 1),
           NEW u \in Slots, Online(u), NEW s \in Second,
           NEW q, q = AfterSymbol(p, u, s)
    PROVE  /\ Grown(q, k)
           /\ symbol_chk(p, u, s) = 1 =>
                 q.sb_data \in Slots /\ q.fifofd[u][q.sb_data] # 0
           /\ symbol_chk(p, u, s) = 1 => q.file = p.file
  <1>1. /\ SoundPipes(p, taken, sess) /\ Len(p.made) + (k + 1) <= MaxFifo
        /\ \A a, b \in Slots : file[a][b] # 0 => p.file[a][b] = file[a][b]
        /\ p \in States /\ Len(p.made) \in Nat
    BY DEF Grown, SoundPipes, States
  <1>2. s.kind \in {"from", "to"} => s.who \in Slots
    BY DEF Second
  <1>3. s.kind \in {"from", "to", "none", "file"}
    BY DEF Second
  <1>4. Grown(p, k)
    <2>1. \A n \in Nat : n + (k + 1) <= MaxFifo => n + k <= MaxFifo
      BY Bounds
    <2>2. Len(p.made) + k <= MaxFifo
      BY <1>1, <2>1
    <2> QED
      BY <1>1, <2>2 DEF Grown
  <1>5. ASSUME NEW r, Grown(r, k), NEW n \in Slots,
               q = [r EXCEPT !.sb_data = n]
        PROVE  Grown(q, k) /\ q.sb_data = n /\ q.fifofd = r.fifofd /\ q.file = r.file
    <2>1. r \in States
      BY <1>5 DEF Grown, SoundPipes
    <2>2. q \in States /\ q.file = r.file /\ q.fifofd = r.fifofd /\ q.made = r.made /\ q.sb_data = n
      BY <1>5, <2>1 DEF States
    <2>3. SoundPipes(q, taken, sess)
      BY <1>5, <2>2 DEF Grown, SoundPipes
    <2> QED
      BY <1>5, <2>2, <2>3 DEF Grown
  <1>6. CASE s.kind = "to" /\ CanPipeTo(p, u, s.who)
    <2>1. Grown(pipe_to_user(p, u, s.who), k)
      BY <1>2, <1>6, MadeSound
    <2>2. q = [pipe_to_user(p, u, s.who) EXCEPT !.sb_data = s.who]
      BY <1>6 DEF AfterSymbol
    <2>3. symbol_chk(p, u, s) = 2
      BY <1>6 DEF symbol_chk
    <2>4. Grown(q, k)
      BY <1>2, <1>5, <1>6, <2>1, <2>2
    <2> QED
      BY <2>3, <2>4
  <1>7. CASE s.kind = "from" /\ pipe_from_user(p, u, s.who)
    <2>1. q = [p EXCEPT !.sb_data = s.who]
      BY <1>7 DEF AfterSymbol
    <2>2. Grown(q, k) /\ q.sb_data = s.who /\ q.fifofd = p.fifofd /\ q.file = p.file
      BY <1>2, <1>4, <1>5, <1>7, <2>1
    <2> QED
      BY <1>2, <1>7, <2>2 DEF pipe_from_user
  <1>8. CASE /\ ~(s.kind = "to" /\ CanPipeTo(p, u, s.who))
             /\ ~(s.kind = "from" /\ pipe_from_user(p, u, s.who))
    <2>1. q = p
      BY <1>8 DEF AfterSymbol
    <2>2. symbol_chk(p, u, s) # 1
      BY <1>3, <1>8 DEF symbol_chk
    <2> QED
      BY <1>4, <2>1, <2>2
  <1> QED
    BY <1>6, <1>7, <1>8

(* A line that reads a pipe takes it, and no other.                        *)
LEMMA ConsumeDone ==
    ASSUME NEW p, Grown(p, 0), NEW u \in Slots, NEW n \in Slots, p.fifofd[u][n] # 0
    PROVE  LineDone(Consume(p, u, n), {p.fifofd[u][n]}, u)
  <1> DEFINE q == Consume(p, u, n)
             f == p.fifofd[u][n]
  <1>1. /\ SoundPipes(p, taken, sess) /\ Len(p.made) <= MaxFifo
        /\ \A a, b \in Slots : file[a][b] # 0 => p.file[a][b] = file[a][b]
        /\ p \in States /\ p.file \in Pairs /\ p.fifofd \in Pairs /\ Len(p.made) \in Nat
    BY DEF Grown, SoundPipes, States
  <1>2. /\ f \in 1..Len(p.made) /\ f # 0 /\ f \notin taken /\ p.made[f].to = sess[u]
        /\ f \in 0..Len(p.made) /\ 0 \in Fifos
    BY <1>1, Bounds DEF SoundPipes
  <1>3. /\ q.file = [p.file EXCEPT ![n][u] = 0]
        /\ q.fifofd = [p.fifofd EXCEPT ![u][n] = 0]
        /\ q.made = p.made
        /\ q.sb_data = p.sb_data
    BY DEF Consume
  <1>4. q.file \in Pairs /\ q.fifofd \in Pairs
    BY <1>1, <1>2, <1>3 DEF Pairs
  <1>5. q \in States
    BY <1>1, <1>3, <1>4 DEF States, Consume
  <1>6. /\ \A a, b \in Slots : q.file[a][b] = IF a = n /\ b = u THEN 0 ELSE p.file[a][b]
        /\ \A a, b \in Slots : q.fifofd[a][b] = IF a = u /\ b = n THEN 0 ELSE p.fifofd[a][b]
    BY <1>1, <1>3 DEF Pairs
  <1> HIDE DEF q
  <1>7. \A a, b \in Slots : q.fifofd[a][b] # 0 => q.fifofd[a][b] = p.fifofd[a][b] /\ q.fifofd[a][b] # f
    BY <1>1, <1>6 DEF SoundPipes
  <1>8. \A a, b \in Slots : q.file[a][b] = q.fifofd[b][a]
    BY <1>1, <1>6 DEF SoundPipes
  <1>9. \A x \in taken \union {f} : x \in 0..Len(q.made)
    BY <1>1, <1>2, <1>3 DEF SoundPipes
  <1>10. \A a, b \in Slots : q.fifofd[a][b] # 0 =>
          /\ q.fifofd[a][b] \in 1..Len(q.made) \ (taken \union {f})
          /\ sess[a] # 0
          /\ q.made[q.fifofd[a][b]].to = sess[a]
    BY <1>1, <1>3, <1>7 DEF SoundPipes
  <1>11. \A a, b, c, d \in Slots :
          q.fifofd[a][b] # 0 /\ q.fifofd[a][b] = q.fifofd[c][d] => a = c /\ b = d
    <2>1. \A a, b, c, d \in Slots :
             p.fifofd[a][b] # 0 /\ p.fifofd[a][b] = p.fifofd[c][d] => a = c /\ b = d
      BY <1>1 DEF SoundPipes
    <2> QED
      BY <1>7, <2>1
  <1>12. SoundPipes(q, taken \union {f}, sess)
    BY <1>1, <1>3, <1>5, <1>8, <1>9, <1>10, <1>11 DEF SoundPipes
  <1>13. \A a, b \in Slots : file[a][b] # 0 /\ q.file[a][b] # file[a][b]
                                => u = b /\ q.file[a][b] = 0
    BY <1>1, <1>6
  <1> QED
    BY <1>2, <1>3, <1>12, <1>13 DEF LineDone, q

(* A line that reads none.                                                 *)
LEMMA GrownDone ==
    ASSUME NEW p, Grown(p, 0), NEW u
    PROVE  LineDone(p, {}, u)
  <1>1. taken \union {} = taken
    OBVIOUS
  <1> QED
    BY <1>1 DEF LineDone, Grown

-----------------------------------------------------------------------------
(* What a line says.                                                       *)

LEMMA SaidBoth ==
    ASSUME NEW M, NEW s \in Seq(M), NEW t \in Seq(M), NEW k
    PROVE  FifosOf(s \o t, k) = FifosOf(s, k) \union FifosOf(t, k)
  <1>1. /\ Len(s) \in Nat /\ Len(t) \in Nat /\ DOMAIN s = 1..Len(s) /\ DOMAIN t = 1..Len(t)
        /\ DOMAIN (s \o t) = 1..Len(s) + Len(t)
        /\ \A i \in 1..Len(s) : (s \o t)[i] = s[i]
        /\ \A i \in 1..Len(t) : (s \o t)[Len(s) + i] = t[i]
    OBVIOUS
  <1>2. ASSUME NEW f \in FifosOf(s \o t, k)
        PROVE  f \in FifosOf(s, k) \union FifosOf(t, k)
    <2>1. PICK i \in DOMAIN (s \o t) : (s \o t)[i].kind = k /\ (s \o t)[i].fifo = f
      BY <1>2 DEF FifosOf
    <2>2. CASE i <= Len(s)
      <3>1. i \in DOMAIN s /\ s[i].kind = k /\ s[i].fifo = f
        BY <1>1, <2>1, <2>2
      <3> QED
        BY <3>1 DEF FifosOf
    <2>3. CASE ~(i <= Len(s))
      <3>1. i - Len(s) \in 1..Len(t) /\ Len(s) + (i - Len(s)) = i
        BY <1>1, <2>1, <2>3
      <3>2. t[i - Len(s)] = (s \o t)[i]
        BY <1>1, <3>1
      <3>3. i - Len(s) \in DOMAIN t /\ t[i - Len(s)].kind = k /\ t[i - Len(s)].fifo = f
        BY <1>1, <2>1, <3>1, <3>2
      <3> QED
        BY <3>3 DEF FifosOf
    <2> QED
      BY <2>2, <2>3
  <1>3. ASSUME NEW f \in FifosOf(s, k)
        PROVE  f \in FifosOf(s \o t, k)
    <2>1. PICK i \in DOMAIN s : s[i].kind = k /\ s[i].fifo = f
      BY <1>3 DEF FifosOf
    <2>2. i \in DOMAIN (s \o t) /\ (s \o t)[i].kind = k /\ (s \o t)[i].fifo = f
      BY <1>1, <2>1
    <2> QED
      BY <2>2 DEF FifosOf
  <1>4. ASSUME NEW f \in FifosOf(t, k)
        PROVE  f \in FifosOf(s \o t, k)
    <2>1. PICK i \in DOMAIN t : t[i].kind = k /\ t[i].fifo = f
      BY <1>4 DEF FifosOf
    <2> DEFINE j == Len(s) + i
    <2>2. j \in 1..Len(s) + Len(t) /\ (s \o t)[j] = t[i]
      BY <1>1, <2>1
    <2>3. j \in DOMAIN (s \o t) /\ (s \o t)[j].kind = k /\ (s \o t)[j].fifo = f
      BY <1>1, <2>1, <2>2
    <2> QED
      BY <2>3 DEF FifosOf
  <1> QED
    BY <1>2, <1>3, <1>4

LEMMA SaidNothing ==
    ASSUME NEW k
    PROVE  FifosOf(<<>>, k) = {}
  <1>1. DOMAIN <<>> = {}
    OBVIOUS
  <1> QED
    BY <1>1 DEF FifosOf

LEMMA SaidOne ==
    ASSUME NEW e, NEW k
    PROVE  /\ e.kind = k => FifosOf(<<e>>, k) = {e.fifo}
           /\ e.kind # k => FifosOf(<<e>>, k) = {}
  <1>1. DOMAIN <<e>> = {1} /\ <<e>>[1] = e
    OBVIOUS
  <1> QED
    BY <1>1 DEF FifosOf

LEMMA SaidTwo ==
    ASSUME NEW d, NEW e, NEW k, d.kind = k, e.kind # k
    PROVE  FifosOf(<<d, e>>, k) = {d.fifo}
  <1>1. DOMAIN <<d, e>> = {1, 2} /\ <<d, e>>[1] = d /\ <<d, e>>[2] = e
    OBVIOUS
  <1> QED
    BY <1>1 DEF FifosOf

LEMMA SaidFour ==
    ASSUME NEW M, NEW a \in Seq(M), NEW b \in Seq(M), NEW c \in Seq(M), NEW d \in Seq(M), NEW k
    PROVE  FifosOf(a \o b \o c \o d, k)
              = FifosOf(a, k) \union FifosOf(b, k) \union FifosOf(c, k) \union FifosOf(d, k)
  <1> DEFINE ab == a \o b
             abc == ab \o c
  <1>1. ab \in Seq(M) /\ FifosOf(ab, k) = FifosOf(a, k) \union FifosOf(b, k)
    BY SaidBoth
  <1> HIDE DEF ab
  <1>2. abc \in Seq(M) /\ FifosOf(abc, k) = FifosOf(ab, k) \union FifosOf(c, k)
    BY <1>1, SaidBoth
  <1> HIDE DEF abc
  <1>3. FifosOf(abc \o d, k) = FifosOf(abc, k) \union FifosOf(d, k)
    BY <1>2, SaidBoth
  <1> QED
    BY <1>1, <1>2, <1>3 DEF ab, abc

(* A complaint is not an announcement.                                     *)
Words == {[kind |-> w] : w \in {"absent", "inuse", "nopipe", "illegal", "output"}}

LEMMA Complained ==
    ASSUME NEW p, NEW u, NEW s, NEW M, Words \subseteq M
    PROVE  /\ Complaint(p, u, s) \in Seq(M)
           /\ FifosOf(Complaint(p, u, s), "received") = {}
  <1>1. \A w \in {"absent", "inuse", "nopipe", "illegal", "output"} :
           [kind |-> w] \in M /\ [kind |-> w].kind # "received"
    BY DEF Words
  <1>2. \A w \in {"absent", "inuse", "nopipe", "illegal", "output"} :
           /\ <<[kind |-> w]>> \in Seq(M)
           /\ FifosOf(<<[kind |-> w]>>, "received") = {}
    BY <1>1, SaidOne
  <1>3. <<>> \in Seq(M) /\ FifosOf(<<>>, "received") = {}
    BY SaidNothing
  <1>4. \/ Complaint(p, u, s) = <<>>
        \/ \E w \in {"absent", "inuse", "nopipe", "illegal", "output"} :
              Complaint(p, u, s) = <<[kind |-> w]>>
    BY DEF Complaint
  <1> QED
    BY <1>2, <1>3, <1>4

LEMMA SaidThree ==
    ASSUME NEW M, NEW a \in Seq(M), NEW b \in Seq(M), NEW c \in Seq(M), NEW k
    PROVE  FifosOf(a \o b \o c, k) = FifosOf(a, k) \union FifosOf(b, k) \union FifosOf(c, k)
  <1> DEFINE ab == a \o b
  <1>1. ab \in Seq(M) /\ FifosOf(ab, k) = FifosOf(a, k) \union FifosOf(b, k)
    BY SaidBoth
  <1> HIDE DEF ab
  <1>2. FifosOf(ab \o c, k) = FifosOf(ab, k) \union FifosOf(c, k)
    BY <1>1, SaidBoth
  <1> QED
    BY <1>1, <1>2 DEF ab

IsComplaint(c) == \E p, u, s : c = Complaint(p, u, s)

(* What each kind of line announces as received.                           *)
LEMMA Announced ==
    ASSUME NEW r, r.kind = "received", NEW t, t.kind # "received",
           NEW c, IsComplaint(c), NEW said
    PROVE  /\ \/ said = c \o <<[kind |-> "illegal"]>>
              \/ said = c \o <<Output>> \o <<>> \o <<t>>
              \/ said = c \o <<>> \o <<Output>>
              => FifosOf(said, "received") = {}
           /\ \/ said = c \o <<Output>> \o <<r>> \o <<t>>
              \/ said = c \o <<r, Output>> \o <<>>
              \/ said = c \o <<r, Output>> \o <<t>>
              \/ said = c \o <<r>> \o <<Output>>
              => FifosOf(said, "received") = {r.fifo}
  <1>1. PICK M : M = Words \union {r, t}
    OBVIOUS
  <1>2. c \in Seq(M) /\ FifosOf(c, "received") = {}
    BY <1>1, Complained DEF IsComplaint
  <1>3. /\ Output \in M /\ [kind |-> "illegal"] \in M /\ r \in M /\ t \in M
        /\ Output.kind # "received" /\ [kind |-> "illegal"].kind # "received"
    BY <1>1 DEF Words, Output
  <1>4. PICK no : no = <<>>
    OBVIOUS
  <1>5. PICK il : il = <<[kind |-> "illegal"]>>
    OBVIOUS
  <1>6. PICK ou : ou = <<Output>>
    OBVIOUS
  <1>7. PICK re : re = <<r>>
    OBVIOUS
  <1>8. PICK ro : ro = <<r, Output>>
    OBVIOUS
  <1>9. PICK th : th = <<t>>
    OBVIOUS
  <1>10. /\ no \in Seq(M) /\ il \in Seq(M) /\ ou \in Seq(M)
         /\ re \in Seq(M) /\ ro \in Seq(M) /\ th \in Seq(M)
    BY <1>3, <1>4, <1>5, <1>6, <1>7, <1>8, <1>9
  <1>11. FifosOf(no, "received") = {}
    BY <1>4, SaidNothing
  <1>12. /\ FifosOf(il, "received") = {} /\ FifosOf(ou, "received") = {}
         /\ FifosOf(re, "received") = {r.fifo} /\ FifosOf(th, "received") = {}
    BY <1>3, <1>5, <1>6, <1>7, <1>9, SaidOne
  <1>13. FifosOf(ro, "received") = {r.fifo}
    BY <1>3, <1>8, SaidTwo
  <1>14. FifosOf(c \o il, "received") = {}
    <2>1. FifosOf(c \o il, "received") = FifosOf(c, "received") \union FifosOf(il, "received")
      BY <1>2, <1>10, SaidBoth
    <2> QED
      BY <1>2, <1>12, <2>1
  <1>15. /\ FifosOf(c \o ou \o no \o th, "received")
               = FifosOf(c, "received") \union FifosOf(ou, "received")
                   \union FifosOf(no, "received") \union FifosOf(th, "received")
         /\ FifosOf(c \o ou \o re \o th, "received")
               = FifosOf(c, "received") \union FifosOf(ou, "received")
                   \union FifosOf(re, "received") \union FifosOf(th, "received")
    BY <1>2, <1>10, SaidFour
  <1>16. /\ FifosOf(c \o ou \o no \o th, "received") = {}
         /\ FifosOf(c \o ou \o re \o th, "received") = {r.fifo}
    BY <1>2, <1>11, <1>12, <1>15
  <1>17. /\ FifosOf(c \o ro \o no, "received") = {r.fifo}
         /\ FifosOf(c \o ro \o th, "received") = {r.fifo}
         /\ FifosOf(c \o no \o ou, "received") = {}
         /\ FifosOf(c \o re \o ou, "received") = {r.fifo}
    <2>1. ASSUME NEW a \in Seq(M), NEW b \in Seq(M)
          PROVE  FifosOf(c \o a \o b, "received")
                    = {} \union FifosOf(a, "received") \union FifosOf(b, "received")
      <3>1. FifosOf(c \o a \o b, "received")
               = FifosOf(c, "received") \union FifosOf(a, "received") \union FifosOf(b, "received")
        BY <1>2, SaidThree
      <3> QED
        BY <1>2, <3>1
    <2>2. FifosOf(c \o ro \o no, "received") = {r.fifo}
      BY <1>10, <1>11, <1>13, <2>1
    <2>3. FifosOf(c \o ro \o th, "received") = {r.fifo}
      BY <1>10, <1>12, <1>13, <2>1
    <2>4. FifosOf(c \o no \o ou, "received") = {}
      BY <1>10, <1>11, <1>12, <2>1
    <2>5. FifosOf(c \o re \o ou, "received") = {r.fifo}
      BY <1>10, <1>12, <2>1
    <2> QED
      BY <2>2, <2>3, <2>4, <2>5
  <1> QED
    BY <1>4, <1>5, <1>6, <1>7, <1>8, <1>9, <1>14, <1>16, <1>17

LEMMA NoneReceived ==
    ASSUME NEW t, t.kind # "received", NEW c, IsComplaint(c), NEW said,
           \/ said = c \o <<[kind |-> "illegal"]>>
           \/ said = c \o <<Output>> \o <<>> \o <<t>>
           \/ said = c \o <<>> \o <<Output>>
    PROVE  FifosOf(said, "received") = {}
  <1>1. PICK r : r = [kind |-> "received", fifo |-> 0]
    OBVIOUS
  <1>2. r.kind = "received"
    BY <1>1
  <1> QED
    BY <1>2, Announced

LEMMA OneReceived ==
    ASSUME NEW r, r.kind = "received", NEW t, t.kind # "received",
           NEW c, IsComplaint(c), NEW said,
           \/ said = c \o <<Output>> \o <<r>> \o <<t>>
           \/ said = c \o <<r, Output>> \o <<>>
           \/ said = c \o <<r, Output>> \o <<t>>
           \/ said = c \o <<r>> \o <<Output>>
    PROVE  FifosOf(said, "received") = {r.fifo}
  BY Announced

-----------------------------------------------------------------------------
(* Lines with pipes.                                                       *)

(* What OneReader says of a step.                                          *)
ReaderTakes ==
    /\ \A a, b \in Slots :
          file[a][b] # 0 /\ file'[a][b] # file[a][b] => serving = b /\ file'[a][b] = 0
    /\ \A f \in FifosOf(news', "received") :
          f # 0 /\ f \notin taken /\ made'[f].to = sess[serving]

(* A line whose pipes end well ends well.                                  *)
LEMMA LineKeeps ==
    ASSUME IInv, PipeLine, left' \in 0..left,
           NEW q, NEW said, LineDone(q, FifosOf(said, "received"), serving),
           Commit(q), Say(said)
    PROVE  IInv' /\ ReaderTakes
  <1> DEFINE fs == FifosOf(said, "received")
  <1>1. /\ file' = q.file /\ fifofd' = q.fifofd /\ made' = q.made /\ sb_data' = q.sb_data
        /\ news' = said /\ taken' = taken \union fs
        /\ UNCHANGED <<kinds, sess, name, logins, env, penv, serving>>
    BY DEF Commit, Say, PipeLine, users, environ
  <1>2. /\ SoundPipes(q, taken', sess)
        /\ \A a, b \in Slots : file[a][b] # 0 /\ q.file[a][b] # file[a][b]
                                  => serving = b /\ q.file[a][b] = 0
        /\ \A f \in fs : f # 0 /\ f \notin taken /\ q.made[f].to = sess[serving]
    BY <1>1 DEF LineDone
  <1>3. q \in States /\ Len(q.made) <= MaxFifo /\ Len(q.made) \in Nat
        /\ \A f \in taken' : f \in 0..Len(q.made)
    BY <1>2 DEF SoundPipes, States
  <1>4. Now' = q
    BY <1>1, <1>3 DEF Now, States
  <1>5. Pipes'
    BY <1>1, <1>2, <1>4 DEF Pipes
  <1>6. taken' \subseteq Fifos
    BY <1>3, Bounds
  <1>7. /\ file' \in Pairs /\ fifofd' \in Pairs /\ made' \in Seq(Ends)
        /\ sb_data' \in Slots \union {0}
    BY <1>1, <1>3 DEF States
  <1>8. left' \in 0..MaxBatch /\ (left' > 0 => left > 0)
    BY Bounds DEF IInv, TypeOK
  <1>9. TypeOK'
    BY <1>1, <1>6, <1>7, <1>8 DEF IInv, TypeOK, Pairs, Ends
  <1>10. Users' /\ AllNames' /\ OnlineNamed' /\ Values'
    BY <1>1, <1>8 DEF IInv, Users, AllNames, OnlineNamed, Values, Online
  <1>11. ReaderTakes
    BY <1>1, <1>2 DEF ReaderTakes
  <1> QED
    BY <1>5, <1>9, <1>10, <1>11 DEF IInv

LEMMA AtLine ==
    ASSUME IInv, PipeLine
    PROVE  /\ Grown(Now, 2) /\ Now.file = file /\ Now.fifofd = fifofd /\ Now.made = made
           /\ serving \in Slots /\ Online(serving)
           /\ sess \in [Slots -> 0..MaxSession]
           /\ left \in Nat /\ left > 0 /\ left - 1 \in 0..left /\ 0 \in 0..left
  <1>1. serving \in Slots /\ sess \in [Slots -> 0..MaxSession] /\ left \in Nat /\ left > 0
    BY Bounds DEF IInv, TypeOK, PipeLine
  <1>2. Now.file = file /\ Now.fifofd = fifofd /\ Now.made = made
    BY DEF Now
  <1>3. Grown(Now, 2)
    BY <1>2 DEF IInv, Pipes, PipeLine, Grown
  <1>4. Online(serving)
    BY <1>1 DEF IInv, Users, PipeLine
  <1> QED
    BY <1>1, <1>2, <1>3, <1>4

LEMMA Less ==
    ASSUME NEW p, NEW j \in Nat, NEW k \in Nat, k <= j, Grown(p, j)
    PROVE  Grown(p, k)
  <1>1. Len(p.made) \in Nat
    BY DEF Grown, SoundPipes, States
  <1>2. \A n \in Nat : n + j <= MaxFifo => n + k <= MaxFifo
    BY Bounds
  <1> QED
    BY <1>1, <1>2 DEF Grown

(* A line that changes no pipe and announces none.                         *)
LEMMA NothingDone ==
    ASSUME IInv, PipeLine, left' = left - 1, UNCHANGED <<file, fifofd, made, sb_data>>,
           NEW e, e.kind # "received", Say(<<e>>)
    PROVE  IInv' /\ ReaderTakes
  <1>1. Commit(Now)
    BY DEF Commit, Now
  <1>2. FifosOf(<<e>>, "received") = {}
    BY SaidOne
  <1>3. LineDone(Now, FifosOf(<<e>>, "received"), serving)
    BY <1>2, AtLine, Less, GrownDone
  <1> QED
    BY <1>1, <1>3, AtLine, LineKeeps

(* A refused line: what its symbols have done stays.                       *)
LEMMA IllegalKeeps ==
    ASSUME IInv, PipeLine, NEW q, Grown(q, 0), NEW p, NEW s,
           Illegal(q, Complaint(p, serving, s))
    PROVE  IInv' /\ ReaderTakes
  <1> DEFINE said == Complaint(p, serving, s) \o <<[kind |-> "illegal"]>>
  <1>1. Commit(q) /\ Say(said) /\ left' = 0
    BY DEF Illegal
  <1>2. Output.kind # "received" /\ IsComplaint(Complaint(p, serving, s))
    BY DEF Output, IsComplaint
  <1>3. FifosOf(said, "received") = {}
    BY <1>2, NoneReceived
  <1>4. LineDone(q, FifosOf(said, "received"), serving)
    BY <1>3, GrownDone
  <1> HIDE DEF said
  <1> QED
    BY <1>1, <1>4, AtLine, LineKeeps

LEMMA PipeToKeeps ==
    ASSUME IInv, NEW m \in Slots, NEW s \in Second, PipeTo(m, s)
    PROVE  IInv' /\ ReaderTakes
  <1>1. PICK u : u = serving
    OBVIOUS
  <1>2. PICK p1 : p1 = pipe_to_user(Now, u, m)
    OBVIOUS
  <1>3. PICK p2 : p2 = AfterSymbol(p1, u, s)
    OBVIOUS
  <1>4. PICK code : code = symbol_chk(p1, u, s)
    OBVIOUS
  <1>5. PipeLine
    BY DEF PipeTo
  <1>6. /\ ~CanPipeTo(Now, u, m) =>
               /\ Say(<<[kind |-> IF Online(m) THEN "inuse" ELSE "absent"]>>)
               /\ left' = left - 1
               /\ UNCHANGED <<file, fifofd, made, sb_data>>
        /\ CanPipeTo(Now, u, m) /\ code > 1 => Illegal(p2, Complaint(p1, u, s))
        /\ CanPipeTo(Now, u, m) /\ ~(code > 1) =>
               /\ Commit(IF code = 1 THEN Consume(p2, u, p2.sb_data) ELSE p2)
               /\ Say(Complaint(p1, u, s) \o <<Output>>
                      \o (IF code = 1 THEN <<Received(p2, u, p2.sb_data)>> ELSE <<>>)
                      \o <<Piped(m, p2.file[u][m])>>)
               /\ left' = left - 1
    BY <1>1, <1>2, <1>3, <1>4 DEF PipeTo
  <1>7. /\ Grown(Now, 2) /\ u \in Slots /\ Online(u) /\ sess \in [Slots -> 0..MaxSession]
        /\ left - 1 \in 0..left
    BY <1>1, <1>5, AtLine
  <1>8. CASE ~CanPipeTo(Now, u, m)
    <2>1. PICK e : e = [kind |-> IF Online(m) THEN "inuse" ELSE "absent"]
      OBVIOUS
    <2>2. e.kind # "received"
      BY <2>1
    <2>3. Say(<<e>>) /\ left' = left - 1 /\ UNCHANGED <<file, fifofd, made, sb_data>>
      BY <1>6, <1>8, <2>1
    <2> QED
      BY <1>5, <2>2, <2>3, NothingDone
  <1>9. ASSUME CanPipeTo(Now, u, m)
        PROVE  /\ Grown(p2, 0)
               /\ code = 1 => p2.sb_data \in Slots /\ p2.fifofd[u][p2.sb_data] # 0
    <2>1. Grown(p1, 1)
      BY <1>2, <1>7, <1>9, MadeSound
    <2> QED
      BY <1>3, <1>4, <1>7, <2>1, SymbolSound
  <1>10. CASE CanPipeTo(Now, u, m) /\ code > 1
    BY <1>1, <1>5, <1>6, <1>9, <1>10, IllegalKeeps
  <1>11. CASE CanPipeTo(Now, u, m) /\ ~(code > 1)
    <2>1. PICK c : c = Complaint(p1, u, s) /\ IsComplaint(c)
      BY DEF IsComplaint
    <2>2. PICK r : r = Received(p2, u, p2.sb_data)
      OBVIOUS
    <2>3. PICK t : t = Piped(m, p2.file[u][m])
      OBVIOUS
    <2>4. r.kind = "received" /\ r.fifo = p2.fifofd[u][p2.sb_data] /\ t.kind # "received"
      BY <2>2, <2>3 DEF Received, Piped
    <2>5. CASE code = 1
      <3>1. PICK q : q = Consume(p2, u, p2.sb_data)
        OBVIOUS
      <3>2. PICK said : said = c \o <<Output>> \o <<r>> \o <<t>>
        OBVIOUS
      <3>3. Commit(q) /\ Say(said) /\ left' = left - 1
        BY <1>6, <1>11, <2>1, <2>2, <2>3, <2>5, <3>1, <3>2
      <3>4. FifosOf(said, "received") = {r.fifo}
        BY <2>1, <2>4, <3>2, OneReceived
      <3>5. LineDone(q, FifosOf(said, "received"), serving)
        BY <1>1, <1>7, <1>9, <1>11, <2>4, <2>5, <3>1, <3>4, ConsumeDone
      <3> QED
        BY <1>5, <1>7, <3>3, <3>5, LineKeeps
    <2>6. CASE code # 1
      <3>1. PICK said : said = c \o <<Output>> \o <<>> \o <<t>>
        OBVIOUS
      <3>2. Commit(p2) /\ Say(said) /\ left' = left - 1
        BY <1>6, <1>11, <2>1, <2>3, <2>6, <3>1
      <3>3. FifosOf(said, "received") = {}
        BY <2>1, <2>4, <3>1, NoneReceived
      <3>4. LineDone(p2, FifosOf(said, "received"), serving)
        BY <1>9, <1>11, <3>3, GrownDone
      <3> QED
        BY <1>5, <1>7, <3>2, <3>4, LineKeeps
    <2> QED
      BY <2>5, <2>6
  <1> QED
    BY <1>8, <1>10, <1>11

LEMMA PipeFromKeeps ==
    ASSUME IInv, NEW n \in Slots, NEW s \in Second, PipeFrom(n, s)
    PROVE  IInv' /\ ReaderTakes
  <1>1. PICK u : u = serving
    OBVIOUS
  <1>2. PICK p : p = AfterSymbol(Now, u, s)
    OBVIOUS
  <1>3. PICK code : code = symbol_chk(Now, u, s)
    OBVIOUS
  <1>4. PICK f : f = IF Len(p.made) > Len(made) THEN Len(p.made) ELSE 0
    OBVIOUS
  <1>5. PipeLine
    BY DEF PipeFrom
  <1>6. /\ ~pipe_from_user(Now, u, n) =>
               /\ Say(<<[kind |-> "nopipe"]>>)
               /\ left' = left - 1
               /\ UNCHANGED <<file, fifofd, made, sb_data>>
        /\ pipe_from_user(Now, u, n) /\ code = 1 => Illegal(p, Complaint(Now, u, s))
        /\ pipe_from_user(Now, u, n) /\ code # 1 =>
               /\ Commit(Consume(p, u, n))
               /\ Say(Complaint(Now, u, s) \o <<Received(Now, u, n), Output>>
                      \o (IF code = 2 THEN <<Piped(p.sb_data, f)>> ELSE <<>>))
               /\ left' = left - 1
    BY <1>1, <1>2, <1>3, <1>4 DEF PipeFrom
  <1>7. /\ Grown(Now, 2) /\ u \in Slots /\ Online(u) /\ sess \in [Slots -> 0..MaxSession]
        /\ left - 1 \in 0..left /\ Now.fifofd = fifofd /\ Now.file = file
    BY <1>1, <1>5, AtLine
  <1>8. Grown(p, 0)
    <2>1. /\ Grown(p, 1)
          /\ symbol_chk(Now, u, s) = 1 => p.sb_data \in Slots /\ p.fifofd[u][p.sb_data] # 0
      BY <1>2, <1>7, SymbolSound
    <2> QED
      BY <2>1, Less
  <1>9. CASE ~pipe_from_user(Now, u, n)
    <2>1. PICK e : e = [kind |-> "nopipe"]
      OBVIOUS
    <2>2. Say(<<e>>) /\ left' = left - 1 /\ UNCHANGED <<file, fifofd, made, sb_data>> /\ e.kind # "received"
      BY <1>6, <1>9, <2>1
    <2> QED
      BY <1>5, <2>2, NothingDone
  <1>10. CASE pipe_from_user(Now, u, n) /\ code = 1
    BY <1>1, <1>5, <1>6, <1>8, <1>10, IllegalKeeps
  <1>11. CASE pipe_from_user(Now, u, n) /\ code # 1
    <2>1. PICK c : c = Complaint(Now, u, s) /\ IsComplaint(c)
      BY DEF IsComplaint
    <2>2. PICK r : r = Received(Now, u, n)
      OBVIOUS
    <2>3. PICK t : t = Piped(p.sb_data, f)
      OBVIOUS
    <2>4. PICK q : q = Consume(p, u, n)
      OBVIOUS
    <2>5. r.kind = "received" /\ r.fifo = fifofd[u][n] /\ t.kind # "received" /\ fifofd[u][n] # 0
      BY <1>7, <1>11, <2>2, <2>3 DEF Received, Piped, pipe_from_user
    <2>6. p.fifofd[u][n] = fifofd[u][n]
      <3>1. file[n][u] = fifofd[u][n]
        BY <1>7 DEF Grown, SoundPipes
      <3>2. p.file[n][u] = file[n][u]
        BY <1>7, <1>8, <2>5, <3>1 DEF Grown
      <3> QED
        BY <1>7, <1>8, <3>1, <3>2 DEF Grown, SoundPipes
    <2>7. LineDone(q, {r.fifo}, serving)
      BY <1>1, <1>7, <1>8, <2>4, <2>5, <2>6, ConsumeDone
    <2>8. CASE code = 2
      <3>1. PICK said : said = c \o <<r, Output>> \o <<t>>
        OBVIOUS
      <3>2. Commit(q) /\ Say(said) /\ left' = left - 1
        BY <1>6, <1>11, <2>1, <2>2, <2>3, <2>4, <2>8, <3>1
      <3>3. FifosOf(said, "received") = {r.fifo}
        BY <2>1, <2>5, <3>1, OneReceived
      <3> QED
        BY <1>5, <1>7, <2>7, <3>2, <3>3, LineKeeps
    <2>9. CASE code # 2
      <3>1. PICK said : said = c \o <<r, Output>> \o <<>>
        OBVIOUS
      <3>2. Commit(q) /\ Say(said) /\ left' = left - 1
        BY <1>6, <1>11, <2>1, <2>2, <2>4, <2>9, <3>1
      <3>3. FifosOf(said, "received") = {r.fifo}
        BY <2>1, <2>5, <3>1, OneReceived
      <3> QED
        BY <1>5, <1>7, <2>7, <3>2, <3>3, LineKeeps
    <2> QED
      BY <2>8, <2>9
  <1> QED
    BY <1>9, <1>10, <1>11

LEMMA OtherLineKeeps ==
    ASSUME IInv, NEW s \in Second, OtherLine(s)
    PROVE  IInv' /\ ReaderTakes
  <1>1. PICK u : u = serving
    OBVIOUS
  <1>2. PICK p : p = AfterSymbol(Now, u, s)
    OBVIOUS
  <1>3. PICK code : code = symbol_chk(Now, u, s)
    OBVIOUS
  <1>4. PipeLine
    BY DEF OtherLine
  <1>5. /\ code > 1 => Illegal(p, Complaint(Now, u, s))
        /\ ~(code > 1) =>
               /\ Commit(IF code = 1 THEN Consume(p, u, p.sb_data) ELSE p)
               /\ Say(Complaint(Now, u, s)
                      \o (IF code = 1 THEN <<Received(p, u, p.sb_data)>> ELSE <<>>)
                      \o <<Output>>)
               /\ left' = left - 1
    BY <1>1, <1>2, <1>3 DEF OtherLine
  <1>6. /\ Grown(Now, 2) /\ u \in Slots /\ Online(u) /\ sess \in [Slots -> 0..MaxSession]
        /\ left - 1 \in 0..left
    BY <1>1, <1>4, AtLine
  <1>7. /\ Grown(p, 0)
        /\ code = 1 => p.sb_data \in Slots /\ p.fifofd[u][p.sb_data] # 0
    <2>1. Grown(p, 1) /\ (code = 1 => p.sb_data \in Slots /\ p.fifofd[u][p.sb_data] # 0)
      BY <1>2, <1>3, <1>6, SymbolSound
    <2> QED
      BY <2>1, Less
  <1>8. CASE code > 1
    BY <1>1, <1>4, <1>5, <1>7, <1>8, IllegalKeeps
  <1>9. CASE ~(code > 1)
    <2>1. PICK c : c = Complaint(Now, u, s) /\ IsComplaint(c)
      BY DEF IsComplaint
    <2>2. PICK r : r = Received(p, u, p.sb_data)
      OBVIOUS
    <2>3. r.kind = "received" /\ r.fifo = p.fifofd[u][p.sb_data] /\ Output.kind # "received"
      BY <2>2 DEF Received, Output
    <2>4. CASE code = 1
      <3>1. PICK q : q = Consume(p, u, p.sb_data)
        OBVIOUS
      <3>2. PICK said : said = c \o <<r>> \o <<Output>>
        OBVIOUS
      <3>3. Commit(q) /\ Say(said) /\ left' = left - 1
        BY <1>5, <1>9, <2>1, <2>2, <2>4, <3>1, <3>2
      <3>4. FifosOf(said, "received") = {r.fifo}
        BY <2>1, <2>3, <3>2, OneReceived
      <3>5. LineDone(q, FifosOf(said, "received"), serving)
        BY <1>1, <1>6, <1>7, <2>3, <2>4, <3>1, <3>4, ConsumeDone
      <3> QED
        BY <1>4, <1>6, <3>3, <3>5, LineKeeps
    <2>5. CASE code # 1
      <3>1. PICK said : said = c \o <<>> \o <<Output>>
        OBVIOUS
      <3>2. Commit(p) /\ Say(said) /\ left' = left - 1
        BY <1>5, <1>9, <2>1, <2>5, <3>1
      <3>3. FifosOf(said, "received") = {}
        BY <2>1, <2>3, <3>1, NoneReceived
      <3>4. LineDone(p, FifosOf(said, "received"), serving)
        BY <1>7, <3>3, GrownDone
      <3> QED
        BY <1>4, <1>6, <3>2, <3>4, LineKeeps
    <2> QED
      BY <2>4, <2>5
  <1> QED
    BY <1>8, <1>9

-----------------------------------------------------------------------------
(* Logging in and out, batches, names and environments.                    *)

LEMMA Types ==
    ASSUME IInv
    PROVE  /\ sess \in [Slots -> Nat] /\ logins \in Nat /\ left \in Nat
           /\ \A u \in Slots : sess[u] \in 0..MaxSession /\ (sess[u] # 0 => sess[u] \in 1..MaxSession)
           /\ serving # 0 => serving \in Slots
           /\ env \in [Slots -> [Vars -> Nat]]
           /\ MaxSession \in Nat /\ MaxBatch \in Nat
  BY Bounds DEF IInv, TypeOK

(* Steps that leave users and pipes as they are.                           *)
LEMMA PipesStay ==
    ASSUME Pipes, UNCHANGED <<sess, pipes>>
    PROVE  Pipes'
  BY DEF Pipes, Now, SoundPipes, States, Pairs, Ends, Fifos, pipes

LEMMA NothingTaken ==
    ASSUME NEW e, news' = <<e>> \/ news' = <<>>, e.kind # "received", UNCHANGED file
    PROVE  ReaderTakes
  <1>1. FifosOf(<<e>>, "received") = {} /\ FifosOf(<<>>, "received") = {}
    BY SaidOne, SaidNothing
  <1>2. FifosOf(news', "received") = {}
    BY <1>1
  <1> QED
    BY <1>2 DEF ReaderTakes

LEMMA AcceptKeeps ==
    ASSUME IInv, Accept
    PROVE  IInv' /\ ReaderTakes
  <1>1. PICK u \in Slots : client_init(u)
    BY DEF Accept
  <1>2. /\ sess[u] = 0 /\ logins' = logins + 1 /\ logins' \in 1..MaxSession
        /\ sess' = [sess EXCEPT ![u] = logins + 1] /\ name' = [name EXCEPT ![u] = NoName]
        /\ UNCHANGED <<kinds, env, penv, file, fifofd, made, taken, sb_data, serving, left>>
        /\ serving = 0 /\ news' = <<[kind |-> "entered", login |-> logins + 1]>>
    <2>1. logins < MaxSession
      BY DEF Accept
    <2>2. logins + 1 \in 1..MaxSession
      BY <2>1, Types
    <2> QED
      BY <1>1, <2>2 DEF Accept, client_init, environ, pipes, Online
  <1>3. \A w \in Slots : sess'[w] = IF w = u THEN logins + 1 ELSE sess[w]
    BY <1>2, Types
  <1>4. /\ \A w \in Slots : sess[w] <= logins /\ sess[w] \in Nat
        /\ logins + 1 # 0 /\ logins + 1 \in Nat /\ logins + 1 \in 1..MaxSession
        /\ \A w \in Slots : sess[w] # logins + 1
    BY <1>2, Types DEF IInv, Users
  <1>5. TypeOK'
    <2>1. sess' \in [Slots -> 0..MaxSession]
      BY <1>2, <1>3, <1>4, Types
    <2>2. name' \in [Slots -> Names \union {NoName, Unnamed}]
      BY <1>2 DEF IInv, TypeOK
    <2>3. logins' \in 0..MaxSession
      BY <1>2, Types
    <2> QED
      BY <1>2, <2>1, <2>2, <2>3 DEF IInv, TypeOK, Fifos
  <1>6. Pipes'
    <2>1. Now' = Now
      BY <1>2 DEF Now
    <2>2. /\ SoundPipes(Now, taken, sess) /\ taken' = taken
      BY <1>2 DEF IInv, Pipes
    <2>3. \A a, b \in Slots : Now.fifofd[a][b] # 0 => sess'[a] = sess[a]
      BY <1>2, <1>3, <2>2 DEF SoundPipes
    <2>4. SoundPipes(Now, taken, sess')
      BY <2>2, <2>3 DEF SoundPipes
    <2> QED
      BY <2>1, <2>2, <2>4 DEF Pipes
  <1>7. Users'
    <2>1. \A w \in Slots : sess'[w] <= logins'
      BY <1>2, <1>3, <1>4, Types
    <2>2. \A v, w \in Slots : sess'[v] # 0 /\ sess'[v] = sess'[w] => v = w
      BY <1>3, <1>4 DEF IInv, Users, Online
    <2> QED
      BY <1>2, <2>1, <2>2 DEF Users, Online
  <1>8. AllNames' /\ OnlineNamed'
    <2>1. \A w \in Slots : name'[w] = IF w = u THEN NoName ELSE name[w]
      BY <1>2 DEF IInv, TypeOK
    <2>2. NoName # Unnamed
      BY SelectServerAssumption
    <2>3. AllNames'
      BY <2>1 DEF IInv, AllNames
    <2>4. OnlineNamed'
      BY <1>3, <2>1, <2>2 DEF IInv, OnlineNamed, Online
    <2> QED
      BY <2>3, <2>4
  <1>9. Values'
    <2>1. \A v \in Vars : env[u][v] = 0
      BY <1>2 DEF IInv, Values
    <2>2. \A w \in Slots, v \in Vars : env'[w][v] \in {0, sess'[w]}
      BY <1>2, <1>3, <2>1 DEF IInv, Values
    <2>3. \A v \in Vars, n \in 0..MaxSession : penv[v] = By(n) => n <= logins
      BY DEF IInv, Values
    <2>4. \A v \in Vars, n \in 0..MaxSession : penv'[v] = By(n) => n <= logins'
      BY <1>2, <2>3, Types
    <2>5. \A v \in Vars : penv[v] # By(logins + 1)
      BY <1>2, <1>4, <2>3, Types
    <2>6. \A v \in Vars, w \in Slots :
             sess'[w] # 0 /\ penv[v] = By(sess'[w]) => serving = w /\ env[w][v] # 0
      BY <1>3, <2>5 DEF IInv, Values, Online
    <2> QED
      BY <1>2, <2>2, <2>4, <2>6 DEF Values, Online
  <1>10. ReaderTakes
    BY <1>2, NothingTaken
  <1> QED
    BY <1>5, <1>6, <1>7, <1>8, <1>9, <1>10 DEF IInv

(* What the process may have as the value of a variable.                   *)
Kept == {Inherited, Blank} \union {By(n) : n \in 1..MaxSession}

LEMMA Distinct ==
    /\ \A n : By(n) # Inherited /\ By(n) # Blank
    /\ \A n, k : By(n) = By(k) => n = k
  BY DEF By, Inherited, Blank

LEMMA BeginBatchKeeps ==
    ASSUME IInv, NEW u \in Slots, BeginBatch(u)
    PROVE  IInv' /\ ReaderTakes
  <1>1. /\ serving = 0 /\ sess[u] # 0 /\ serving' = u /\ left' \in 1..MaxBatch
        /\ penv' = [v \in Vars |-> IF env[u][v] # 0 THEN By(env[u][v]) ELSE penv[v]]
        /\ UNCHANGED <<kinds, sess, name, logins, env, file, fifofd, made, taken, sb_data>>
        /\ news' = <<>>
    BY DEF BeginBatch, set_clienv, users, pipes, Online
  <1>2. \A v \in Vars : env[u][v] \in {0, sess[u]} /\ sess[u] \in 1..MaxSession /\ sess[u] <= logins
    BY <1>1, Types DEF IInv, Values, Users
  <1>3. \A v \in Vars : penv'[v] = IF env[u][v] # 0 THEN By(sess[u]) ELSE penv[v]
    BY <1>1, <1>2
  <1>4. TypeOK'
    <2>1. penv' \in [Vars -> Kept]
      BY <1>1, <1>2 DEF IInv, TypeOK, Kept
    <2>2. left' \in 0..MaxBatch
      BY <1>1, Types
    <2> QED
      BY <1>1, <2>1, <2>2 DEF IInv, TypeOK, Fifos, Kept
  <1>5. Pipes'
    BY <1>1, PipesStay DEF IInv, pipes
  <1>6. Users' /\ AllNames' /\ OnlineNamed'
    BY <1>1 DEF IInv, Users, AllNames, OnlineNamed, Online
  <1>7. Values'
    <2>1. \A v \in Vars, n \in 0..MaxSession : penv'[v] = By(n) => n <= logins
      BY <1>2, <1>3, Distinct DEF IInv, Values
    <2>2. ASSUME NEW v \in Vars, NEW w \in Slots, sess[w] # 0, penv'[v] = By(sess[w])
          PROVE  u = w /\ env[w][v] # 0
      <3>1. env[u][v] # 0
        BY <1>1, <1>3, <2>2, Bounds DEF IInv, Values, Online
      <3>2. sess[w] = sess[u]
        BY <1>3, <2>2, <3>1, Distinct
      <3> QED
        BY <2>2, <3>1, <3>2 DEF IInv, Users, Online
    <2> QED
      BY <1>1, <2>1, <2>2 DEF IInv, Values, Online
  <1>8. ReaderTakes
    <2>1. FifosOf(news', "received") = {}
      BY <1>1, SaidNothing
    <2> QED
      BY <1>1, <2>1 DEF ReaderTakes
  <1> QED
    BY <1>4, <1>5, <1>6, <1>7, <1>8 DEF IInv

LEMMA EndBatchKeeps ==
    ASSUME IInv, EndBatch
    PROVE  IInv' /\ ReaderTakes
  <1>1. /\ serving # 0 /\ left = 0 /\ serving' = 0
        /\ penv' = [v \in Vars |-> IF env[serving][v] # 0 THEN Blank ELSE penv[v]]
        /\ UNCHANGED <<kinds, sess, name, logins, env, file, fifofd, made, taken, sb_data, left>>
        /\ news' = <<>>
    BY DEF EndBatch, clean_clienv, users, pipes
  <1>2. \A v \in Vars : penv'[v] = IF env[serving][v] # 0 THEN Blank ELSE penv[v]
    BY <1>1
  <1>3. TypeOK'
    <2>1. penv' \in [Vars -> Kept]
      BY <1>1 DEF IInv, TypeOK, Kept
    <2> QED
      BY <1>1, <2>1 DEF IInv, TypeOK, Fifos, Kept
  <1>4. Pipes'
    BY <1>1, PipesStay DEF IInv, pipes
  <1>5. Users' /\ AllNames' /\ OnlineNamed'
    BY <1>1 DEF IInv, Users, AllNames, OnlineNamed, Online
  <1>6. Values'
    <2>1. \A v \in Vars, n \in 0..MaxSession : penv'[v] = By(n) => n <= logins
      BY <1>2, Distinct DEF IInv, Values
    <2>2. ASSUME NEW v \in Vars, NEW w \in Slots, sess[w] # 0
          PROVE  penv'[v] # By(sess[w])
      BY <1>2, <2>2, Distinct DEF IInv, Values, Online
    <2> QED
      BY <1>1, <2>1, <2>2 DEF IInv, Values, Online
  <1>7. ReaderTakes
    <2>1. FifosOf(news', "received") = {}
      BY <1>1, SaidNothing
    <2> QED
      BY <1>1, <2>1 DEF ReaderTakes
  <1> QED
    BY <1>3, <1>4, <1>5, <1>6, <1>7 DEF IInv

(* Lines without pipes leave the pipes, and count down the batch.          *)
LEMMA QuietLine ==
    ASSUME IInv, NEW c, Line(c)
    PROVE  /\ serving' = serving /\ left' = left - 1 /\ left' \in 0..MaxBatch
           /\ serving \in Slots /\ sess[serving] # 0 /\ left > 0
  BY Types DEF IInv, TypeOK, Users, Line, Online

LEMMA ExitKeeps ==
    ASSUME IInv, Exit
    PROVE  IInv' /\ ReaderTakes
  <1>1. PICK u : u = serving
    OBVIOUS
  <1>2. /\ u \in Slots /\ sess[u] # 0 /\ serving' = u /\ left' = 0
        /\ fifofd' = [fifofd EXCEPT ![u] = [n \in Slots |-> 0]]
        /\ file' = [a \in Slots |-> [file[a] EXCEPT ![u] = IF fifofd[u][a] # 0 THEN 0 ELSE @]]
        /\ sess' = [sess EXCEPT ![u] = 0]
        /\ env' = [env EXCEPT ![u] = [v \in Vars |-> 0]]
        /\ UNCHANGED <<kinds, name, logins, penv, made, taken, sb_data>>
        /\ news' = <<[kind |-> "left", login |-> sess[u]]>>
    BY <1>1, QuietLine DEF Exit, clean_cli
  <1>3. /\ file \in Pairs /\ fifofd \in Pairs /\ 0 \in Fifos
        /\ Now.file = file /\ Now.fifofd = fifofd /\ Now.made = made /\ SoundPipes(Now, taken, sess)
    BY Bounds DEF IInv, TypeOK, Pipes, Now, Pairs
  <1>4. \A a, b \in Slots : file[a][b] = fifofd[b][a]
    BY <1>3 DEF SoundPipes
  <1>5. /\ \A a, b \in Slots : fifofd'[a][b] = IF a = u THEN 0 ELSE fifofd[a][b]
        /\ \A a, b \in Slots : file'[a][b] = IF b = u THEN 0 ELSE file[a][b]
        /\ \A w \in Slots : sess'[w] = IF w = u THEN 0 ELSE sess[w]
        /\ \A w \in Slots, v \in Vars : env'[w][v] = IF w = u THEN 0 ELSE env[w][v]
    <2>1. \A a, b \in Slots : fifofd'[a][b] = IF a = u THEN 0 ELSE fifofd[a][b]
      BY <1>2, <1>3 DEF Pairs
    <2>2. \A a \in Slots : file'[a] = [file[a] EXCEPT ![u] = IF fifofd[u][a] # 0 THEN 0 ELSE @]
      BY <1>2
    <2>3. \A a, b \in Slots : file'[a][b] = IF b = u THEN 0 ELSE file[a][b]
      BY <1>2, <1>3, <1>4, <2>2 DEF Pairs
    <2>4. \A w \in Slots : sess'[w] = IF w = u THEN 0 ELSE sess[w]
      BY <1>2, Types
    <2>5. \A w \in Slots, v \in Vars : env'[w][v] = IF w = u THEN 0 ELSE env[w][v]
      BY <1>2, Types
    <2> QED
      BY <2>1, <2>3, <2>4, <2>5
  <1>6. file' \in Pairs /\ fifofd' \in Pairs
    <2>1. fifofd' \in Pairs
      BY <1>2, <1>3 DEF Pairs
    <2>2. \A a \in Slots : [file[a] EXCEPT ![u] = IF fifofd[u][a] # 0 THEN 0 ELSE @] \in [Slots -> Fifos]
      BY <1>2, <1>3 DEF Pairs
    <2> QED
      BY <1>2, <2>1, <2>2 DEF Pairs
  <1>7. TypeOK'
    <2>1. sess' \in [Slots -> 0..MaxSession]
      BY <1>2, Types DEF IInv, TypeOK
    <2>2. env' \in [Slots -> [Vars -> 0..MaxSession]]
      BY <1>2, Types DEF IInv, TypeOK
    <2>3. serving' \in Slots \union {0} /\ left' \in 0..MaxBatch
      BY <1>2, Types
    <2> QED
      BY <1>2, <1>6, <2>1, <2>2, <2>3 DEF IInv, TypeOK, Pairs, Fifos
  <1>8. Pipes'
    <2>1. PICK q : q = Now'
      OBVIOUS
    <2>2. /\ q.file = file' /\ q.fifofd = fifofd' /\ q.made = made /\ q.sb_data = sb_data
          /\ q = [file |-> file', fifofd |-> fifofd', made |-> made, sb_data |-> sb_data]
      BY <1>2, <2>1 DEF Now
    <2>3. q \in States
      BY <1>6, <2>2 DEF States, IInv, TypeOK, Ends
    <2>4. Len(q.made) <= MaxFifo /\ \A f \in taken : f \in 0..Len(q.made)
      BY <1>3, <2>2 DEF SoundPipes
    <2>5. \A a, b \in Slots : q.file[a][b] = q.fifofd[b][a]
      BY <1>4, <1>5, <2>2
    <2>6. \A a, b \in Slots : q.fifofd[a][b] # 0 => fifofd[a][b] = q.fifofd[a][b] /\ sess'[a] = sess[a]
      BY <1>5, <2>2
    <2>7. \A a, b \in Slots : q.fifofd[a][b] # 0 =>
             /\ q.fifofd[a][b] \in 1..Len(q.made) \ taken
             /\ sess'[a] # 0
             /\ q.made[q.fifofd[a][b]].to = sess'[a]
      BY <1>3, <2>2, <2>6 DEF SoundPipes
    <2>8. \A a, b, c, d \in Slots :
             q.fifofd[a][b] # 0 /\ q.fifofd[a][b] = q.fifofd[c][d] => a = c /\ b = d
      <3>1. \A a, b, c, d \in Slots :
               fifofd[a][b] # 0 /\ fifofd[a][b] = fifofd[c][d] => a = c /\ b = d
        BY <1>3 DEF SoundPipes
      <3> QED
        BY <2>6, <3>1
    <2>9. SoundPipes(q, taken, sess')
      BY <2>3, <2>4, <2>5, <2>7, <2>8 DEF SoundPipes
    <2> QED
      BY <1>2, <2>1, <2>9 DEF Pipes
  <1>9. Users'
    <2>1. \A w \in Slots : sess'[w] <= logins
      BY <1>5, Types DEF IInv, Users
    <2> QED
      BY <1>2, <1>5, <2>1 DEF IInv, Users, Online
  <1>10. AllNames' /\ OnlineNamed'
    BY <1>2, <1>5 DEF IInv, AllNames, OnlineNamed, Online
  <1>11. Values'
    <2>1. \A w \in Slots, v \in Vars : env'[w][v] \in {0, sess'[w]}
      BY <1>5 DEF IInv, Values
    <2>2. \A v \in Vars, w \in Slots :
             sess'[w] # 0 /\ penv[v] = By(sess'[w]) => serving = w /\ env'[w][v] # 0
      BY <1>5 DEF IInv, Values, Online
    <2> QED
      BY <1>1, <1>2, <2>1, <2>2 DEF IInv, Values, Online
  <1>12. ReaderTakes
    <2>1. FifosOf(news', "received") = {}
      BY <1>2, SaidOne
    <2> QED
      BY <1>1, <1>5, <2>1 DEF ReaderTakes
  <1> QED
    BY <1>7, <1>8, <1>9, <1>10, <1>11, <1>12 DEF IInv

(* A line that leaves users, environments and pipes alone.                 *)
LEMMA IdleKeeps ==
    ASSUME IInv, NEW c, Line(c), UNCHANGED <<users, environ, pipes>>,
           NEW e, news' = <<e>> \/ news' = <<>>, e.kind # "received"
    PROVE  IInv' /\ ReaderTakes
  <1>1. /\ UNCHANGED <<kinds, sess, name, logins, env, penv, file, fifofd, made, taken, sb_data>>
        /\ serving' = serving /\ left' \in 0..MaxBatch /\ sess[serving] # 0
    BY QuietLine DEF users, environ, pipes
  <1>2. Pipes'
    BY PipesStay DEF IInv, users
  <1>3. TypeOK' /\ Users' /\ AllNames' /\ OnlineNamed' /\ Values'
    BY <1>1 DEF IInv, TypeOK, Users, AllNames, OnlineNamed, Values, Online, Fifos
  <1>4. ReaderTakes
    BY <1>1, NothingTaken
  <1> QED
    BY <1>2, <1>3, <1>4 DEF IInv

LEMMA TalkKeeps ==
    ASSUME IInv, Talk
    PROVE  IInv' /\ ReaderTakes
  <1>1. PICK to \in Slots :
           news' = IF Online(to) THEN <<[kind |-> "told", login |-> sess[to]]>>
                                 ELSE <<[kind |-> "absent"]>>
    BY DEF Talk
  <1>2. PICK e : news' = <<e>> /\ e.kind # "received"
    BY <1>1
  <1>3. Line("talk") /\ UNCHANGED <<users, environ, pipes>>
    BY DEF Talk
  <1> QED
    BY <1>2, <1>3, IdleKeeps

LEMMA PrintenvKeeps ==
    ASSUME IInv, NEW v \in Vars, Printenv(v)
    PROVE  IInv' /\ ReaderTakes
  <1>1. PICK e : e = [kind |-> "value", var |-> v, from |-> penv[v]]
    OBVIOUS
  <1>2. news' = <<e>> /\ e.kind # "received" /\ Line("printenv") /\ UNCHANGED <<users, environ, pipes>>
    BY <1>1 DEF Printenv
  <1> QED
    BY <1>2, IdleKeeps

LEMMA NameKeeps ==
    ASSUME IInv, NEW n \in Names, Name(n)
    PROVE  IInv' /\ ReaderTakes
  <1>1. CASE \E u \in Slots : name[u] = n
    <2>1. PICK e : e = [kind |-> "exists", name |-> n]
      OBVIOUS
    <2>2. /\ news' = <<e>> /\ e.kind # "received" /\ Line("name")
          /\ UNCHANGED <<users, environ, pipes>>
      BY <1>1, <2>1 DEF Name, users
    <2> QED
      BY <2>2, IdleKeeps
  <1>2. CASE ~\E u \in Slots : name[u] = n
    <2>1. /\ name' = [name EXCEPT ![serving] = n] /\ news' = <<[kind |-> "named", name |-> n]>>
          /\ UNCHANGED <<kinds, sess, logins, env, penv, file, fifofd, made, taken, sb_data>>
          /\ serving' = serving /\ left' \in 0..MaxBatch /\ serving \in Slots /\ sess[serving] # 0
      BY <1>2, QuietLine DEF Name, environ, pipes
    <2>2. \A w \in Slots : name'[w] = IF w = serving THEN n ELSE name[w]
      BY <2>1 DEF IInv, TypeOK
    <2>3. n # Unnamed /\ n # NoName
      BY SelectServerAssumption
    <2>4. TypeOK'
      <3>1. name' \in [Slots -> Names \union {NoName, Unnamed}]
        BY <2>1 DEF IInv, TypeOK
      <3> QED
        BY <2>1, <3>1 DEF IInv, TypeOK, Fifos
    <2>5. Pipes'
      BY <2>1, PipesStay DEF IInv, pipes
    <2>6. AllNames' /\ OnlineNamed'
      BY <1>2, <2>1, <2>2, <2>3 DEF IInv, AllNames, OnlineNamed, Online
    <2>7. Users' /\ Values'
      BY <2>1 DEF IInv, Users, Values, Online
    <2>8. ReaderTakes
      <3>1. PICK e : e = [kind |-> "named", name |-> n]
        OBVIOUS
      <3> QED
        BY <2>1, <3>1, NothingTaken
    <2> QED
      BY <2>4, <2>5, <2>6, <2>7, <2>8 DEF IInv
  <1> QED
    BY <1>1, <1>2

LEMMA SetenvKeeps ==
    ASSUME IInv, NEW v \in Vars, Setenv(v)
    PROVE  IInv' /\ ReaderTakes
  <1>1. /\ env' = [env EXCEPT ![serving][v] = sess[serving]] /\ news' = <<>>
        /\ UNCHANGED <<kinds, sess, name, logins, penv, file, fifofd, made, taken, sb_data>>
        /\ serving' = serving /\ left' \in 0..MaxBatch /\ serving \in Slots /\ sess[serving] # 0
    BY QuietLine DEF Setenv, users, pipes
  <1>2. \A w \in Slots, x \in Vars :
           env'[w][x] = IF w = serving /\ x = v THEN sess[serving] ELSE env[w][x]
    BY <1>1, Types
  <1>3. TypeOK'
    <2>1. env' \in [Slots -> [Vars -> 0..MaxSession]]
      BY <1>1, Types DEF IInv, TypeOK
    <2> QED
      BY <1>1, <2>1 DEF IInv, TypeOK, Fifos
  <1>4. Pipes'
    BY <1>1, PipesStay DEF IInv, pipes
  <1>5. Users' /\ AllNames' /\ OnlineNamed'
    BY <1>1 DEF IInv, Users, AllNames, OnlineNamed, Online
  <1>6. Values'
    <2>1. \A w \in Slots, x \in Vars : env'[w][x] \in {0, sess'[w]}
      BY <1>1, <1>2 DEF IInv, Values
    <2>2. \A x \in Vars, w \in Slots :
             sess[w] # 0 /\ penv[x] = By(sess[w]) => serving = w /\ env'[w][x] # 0
      BY <1>1, <1>2 DEF IInv, Values, Online
    <2> QED
      BY <1>1, <2>1, <2>2 DEF IInv, Values, Online
  <1>7. ReaderTakes
    <2>1. FifosOf(news', "received") = {}
      BY <1>1, SaidNothing
    <2> QED
      BY <1>1, <2>1 DEF ReaderTakes
  <1> QED
    BY <1>3, <1>4, <1>5, <1>6, <1>7 DEF IInv

-----------------------------------------------------------------------------
(* The theorems.                                                           *)

LEMMA InitEstablishes == Init => IInv
  <1> SUFFICES ASSUME Init PROVE IInv
    OBVIOUS
  <1>1. /\ \A a, b \in Slots : file[a][b] = 0 /\ fifofd[a][b] = 0
        /\ \A u \in Slots : sess[u] = 0 /\ name[u] = Unnamed
        /\ \A u \in Slots, v \in Vars : env[u][v] = 0
        /\ \A v \in Vars : penv[v] = Inherited
        /\ made = <<>> /\ Len(made) = 0 /\ taken = {} /\ logins = 0
    BY DEF Init
  <1>2. TypeOK
    <2>1. 0 \in 0..MaxFifo /\ 0 \in 0..MaxSession /\ 0 \in 0..MaxBatch
      BY Bounds
    <2> QED
      BY <2>1 DEF Init, TypeOK, Fifos
  <1>3. Pipes
    <2>1. PICK q : q = Now
      OBVIOUS
    <2>2. q.file = file /\ q.fifofd = fifofd /\ q.made = made /\ q = [file |-> file, fifofd |-> fifofd, made |-> made, sb_data |-> sb_data]
      BY <2>1 DEF Now
    <2>3. q \in States
      BY <1>2, <2>2 DEF States, TypeOK, Pairs, Ends
    <2>4. SoundPipes(q, taken, sess)
      BY <1>1, <2>2, <2>3, Bounds DEF SoundPipes
    <2> QED
      BY <2>1, <2>4 DEF Pipes
  <1>4. Users
    BY <1>1 DEF Init, Users, Online
  <1>5. AllNames /\ OnlineNamed
    BY <1>1 DEF AllNames, OnlineNamed, Online
  <1>6. Values
    BY <1>1, Distinct DEF Values, Online
  <1> QED
    BY <1>2, <1>3, <1>4, <1>5, <1>6 DEF IInv

LEMMA NextKeeps ==
    ASSUME IInv, Next
    PROVE  IInv' /\ ReaderTakes
  <1>1. CASE Accept
    BY <1>1, AcceptKeeps
  <1>2. CASE \E u \in Slots : BeginBatch(u)
    BY <1>2, BeginBatchKeeps
  <1>3. CASE EndBatch
    BY <1>3, EndBatchKeeps
  <1>4. CASE Exit
    BY <1>4, ExitKeeps
  <1>5. CASE Talk
    BY <1>5, TalkKeeps
  <1>6. CASE \E n \in Names : Name(n)
    BY <1>6, NameKeeps
  <1>7. CASE \E v \in Vars : Setenv(v) \/ Printenv(v)
    BY <1>7, SetenvKeeps, PrintenvKeeps
  <1>8. CASE \E m \in Slots, s \in Second : PipeTo(m, s) \/ PipeFrom(m, s)
    BY <1>8, PipeToKeeps, PipeFromKeeps
  <1>9. CASE \E s \in Second : OtherLine(s)
    BY <1>9, OtherLineKeeps
  <1> QED
    BY <1>1, <1>2, <1>3, <1>4, <1>5, <1>6, <1>7, <1>8, <1>9 DEF Next

LEMMA StutterKeeps == IInv /\ UNCHANGED vars => IInv'
  <1> SUFFICES ASSUME IInv, UNCHANGED vars PROVE IInv'
    OBVIOUS
  <1>1. UNCHANGED <<kinds, sess, name, env, penv, file, fifofd, made, taken, sb_data, serving, left, logins>>
    BY DEF vars
  <1>2. Pipes'
    BY <1>1, PipesStay DEF IInv, pipes
  <1>3. TypeOK' /\ Users' /\ AllNames' /\ OnlineNamed' /\ Values'
    BY <1>1 DEF IInv, TypeOK, Users, AllNames, OnlineNamed, Values, Online, Fifos
  <1> QED
    BY <1>2, <1>3 DEF IInv

(* What the theorems below follow from.                                    *)
THEOREM InductiveInvariant == Spec => []IInv
  <1>1. IInv /\ [Next]_vars => IInv'
    BY NextKeeps, StutterKeeps
  <1> QED
    BY InitEstablishes, <1>1, PTL DEF Spec

(* The records, the directory and the batch stay well formed.              *)
THEOREM TypeCorrect == Spec => []TypeOK
  <1>1. IInv => TypeOK
    BY DEF IInv
  <1> QED
    BY InductiveInvariant, <1>1, PTL

(* Whoever gets a slot finds nothing of its earlier users in it, and the   *)
(* descriptors of a record are those of the FIFOs in the directory.        *)
THEOREM RecordsOwnedAndTrue == Spec => []RecordsAgree
  <1>1. IInv => RecordsAgree
    <2> SUFFICES ASSUME IInv PROVE RecordsAgree
      OBVIOUS
    <2>1. Now.file = file /\ Now.fifofd = fifofd /\ Now.made = made /\ SoundPipes(Now, taken, sess)
      BY DEF IInv, Pipes, Now
    <2>2. FifoConsistent
      BY <2>1 DEF SoundPipes, FifoConsistent
    <2>3. RecordIsOwn
      BY <2>1 DEF SoundPipes, RecordIsOwn, IInv, Values, Online
    <2> QED
      BY <2>2, <2>3 DEF RecordsAgree
  <1> QED
    BY InductiveInvariant, <1>1, PTL

(* No two users who are logged in have the same name.                      *)
THEOREM NamesStayDistinct == Spec => []NamesDistinct
  <1>1. IInv => NamesDistinct
    BY DEF IInv, AllNames, OnlineNamed, NamesDistinct
  <1> QED
    BY InductiveInvariant, <1>1, PTL

(* The variables a user has set are in the environment of the process      *)
(* while that user is served, and at no other time while he is there.      *)
THEOREM ValuesOnlyWhileServed == Spec => []ValuesOfServed
  <1>1. IInv => ValuesOfServed
    BY DEF IInv, Values, ValuesOfServed
  <1> QED
    BY InductiveInvariant, <1>1, PTL

(* A pipe goes to the login it was made for, once, and nobody else removes *)
(* or overwrites it.                                                       *)
THEOREM PipesTakenOnce == Spec => OneReader
  <1>1. IInv /\ [Next]_vars =>
           [/\ \A a, b \in Slots :
                  file[a][b] # 0 /\ file'[a][b] # file[a][b]
                      => serving = b /\ file'[a][b] = 0
            /\ \A f \in FifosOf(news', "received") :
                  f # 0 /\ f \notin taken /\ made'[f].to = sess[serving]]_vars
    BY NextKeeps DEF ReaderTakes
  <1> QED
    BY InductiveInvariant, <1>1, PTL DEF Spec, OneReader
=============================================================================
