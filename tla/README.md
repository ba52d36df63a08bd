# Specifications of the network-programming servers

TLA+ modules, TLC runs and TLAPS proofs for the programs under `src/`: a remote
shell with numbered pipes (Project1), the same shell as a chat server in two
designs (Project2), a batch client behind an HTTP server (Project3) and a SOCKS4
server (Project4).  Every definition is read off the C source; `PROJECT.json`
("map") names the lines.

## Inventory

| component | state | operations | what is hard | what makes it correct |
|---|---|---|---|---|
| line list (`li3.c`, `create_linenode`, the walk of `execute_cmdline`; three copies) | list of line nodes, `curnode`, `tailnode`, `linecount`, the two ends of the pipe to a node | one per kind of line | nodes made in advance by `\|N`, several lines that pipe to one, numbers that start at 1 or -1, lines given up half-way | the walk finds its node; a line gets exactly what was sent to it; ends are kept as long as needed and no longer |
| running a line (`execute_cmdline`, `creat_proc`) | the descriptor table of the shell and of the command that runs | pipe, fork, dup2, close, wait | closing numbers that the kernel has given out again; waiting for the writer before starting the reader | each command on the right ends; it sees the end of its input; nothing left behind; the line ends |
| concurrent server (`start_server`; three copies) | the processes and the sockets each holds | accept, two forks, close, wait | processes that end in any order; fork that fails | nobody keeps another's connection; no zombies; everyone is accepted |
| chat server, one process (`Project2/select`) | `clidata[1..30]`, FIFOs `.AtoB` in the directory, the process's environment, `sb_data`, the four list globals | login, logout, who, name, yell, tell, setenv, printenv, `>N`, `<N` | one process's globals serve all clients; slots and names reused; refused lines that have already had effects | pipes belong to who they were sent to and are taken once; names differ; environments do not mix |
| its select loop | `allfds`, `readfds`, a partly read line | select, accept, read, hang-up | a snapshot used while clients come and go; blocking reads and writes | everyone is served; descriptors watched are those held; a hang-up is noticed |
| chat server, shared memory (`Project2/shm`): records and messages | `shmdata[1..30]`: pid, message buffer; a pending signal per process | connect, tell, yell, exit, the handler `sigMsg` | no lock: check-then-act on records, a handler in the middle of everything, signals that do not queue, pids that vanish between check and kill | ids differ; a process keeps its record; a message is shown, once |
| its pipes between users | FIFOs, `fifofd` in the shared record | `>N`, `<N`, the handler `sigPipe` | `open` that waits for a reader who leaves; a FIFO unlinked while the handler opens it; records given up before they are cleaned | a sender is not left waiting; directory, records and descriptors agree; a pipe is read once, whole, by its receiver |
| CGI batch client (`Project3/Part1_CGI`, `Project4/Part1_CGISocketClient`) | per host: socket, `is_active`, place in the batch file; `allfds` | connect, SOCKS handshake, read until the prompt, send a line | prompts split over reads, short writes, hosts that fail, one loop for all | a host gets its file, line by line, in order; one host does not spoil another; the program ends |
| HTTP server (`Part2_HTTPServer`) | three processes per request and their sockets | parse, look for the resource, send it or fork and run it | the connection is held by several processes in turn; each fork may fail; browsers leave | the browser gets one answer and sees its end |
| WinSock server (`Part3_WinSock`) | `web[10]`, five hosts each, `web_clifd_map` | window messages | messages about sockets that have been closed, and whose numbers or records others have; only the last host closes a page | what hosts say goes to the page that asked; a page is closed when, and not before, its last host has ended |
| SOCKS4 server (`Part2_SocketServer`) | rules; per connection two sockets and one buffer | request, firewall, CONNECT, BIND, `doRedirect` | full queues in both directions with blocking writes; the end of one side | only what the file permits is granted; data arrive in order without gaps; both sides are closed in the end |

The parsing helpers (`rm_fespace`, `reg_match`, `get_filename`, `get_endnum`,
`parse_cmd_seq`) are text processing; the models start from what they tell apart,
the kind of a line and its symbols.  The test clients show what is sent: a line at
a time, `exit` last.

### How the components interact

In the single-process chat server a client's packet is read by the loop
(`SelectLoop`: `Read`) and becomes a batch of lines (`SelectServer`: `BeginBatch` ...
`EndBatch`).  In every shell a line takes a node of the client's list (`LineList`: one
action per kind of line), and a line with commands runs them on the shell's
descriptors (`CommandLine`: `Start`, `CloseEnds`, `Wait` per command).  In the
shared-memory server the processes of two users meet only in shared memory, in the
directory and by signals (`ShmServer` for records and messages, `ShmPipes` for the
pipes between users).  The processes of the remote shell, of the shared-memory server
and of the HTTP server are made in the same way (`ForkServer`); the HTTP server runs the
batch client as its program (`HttpServer`: `Execute`, `EndProgram`).  The batch client talks to such shells (`BatchCgi`: `Run` is the
shell as the client sees it), either directly or through the SOCKS server
(`SocksServer`: its client is then the batch client, its server the shell).  The
modules cut the code at these calls; what one leaves out is an action, or a choice,
of the next.

## Modules

| module | what it is |
|---|---|
| `NumberedPipes` | what the numbered pipes promise, without list, descriptors or processes |
| `LineList` | the list, one action per kind of line, in the three variants of the code; `Delivers` says it implements `NumberedPipes` |
| `CommandLine` | one line on descriptor tables, from every state of the shell a line can start in |
| `RemoteShellProofs` | the theorems about `LineList` and `CommandLine`, and that the list implements `NumberedPipes` |
| `SelectServer`, `MCSelectServer` | users, names, environments and pipes between users of the single-process server; which lines a run has |
| `SelectServerProofs` | the theorems about `SelectServer` |
| `SelectLoop`, `MCSelectLoop` | the select loop, with clients that send pieces of lines and may hang up |
| `SelectLoopProofs` | the theorems about `SelectLoop` |
| `ShmServer`, `MCShmServer` | the records and messages of the shared-memory server, one access to the memory per step |
| `ShmServerProofs` | the theorems about `ShmServer` |
| `ShmPipes`, `MCShmPipes` | the pipes between its users, one access to memory or directory per step |
| `ShmPipesProofs` | the theorems about `ShmPipes` |
| `ForkServer` | the double fork of the concurrent servers |
| `HttpServer` | `ForkServer` with the processes and answers of the HTTP server |
| `WinSockServer`, `MCWinSockServer` | the WinSock server, one handler per step |
| `WebServerProofs` | the theorems about the two web servers, `ForkServer` with `HttpServer` and `WinSockServer` |
| `TwoWayStream` | what a relay between two ends promises |
| `SocksServer`, `MCSocksServer` | one connection of the SOCKS server; `Relayed` says it implements `TwoWayStream` |
| `SocksServerProofs` | the theorems about `SocksServer`, and that it implements `TwoWayStream` |
| `BatchCgi` | the batch client with its hosts, in both versions |
| `BatchCgiProofs` | the theorems about `BatchCgi` |

### LineList

Node 0 is the HEAD node, `cur` and `tail` are `curnode` and `tailnode`, the
function `node` is the list from HEAD to tail.  `wire[i]` is what is in the pipe
to node `i` (the lines that wrote, in order); `wr` and `rd` are the nodes whose
numbered pipe's ends the shell has open.  `PlainLine(user)` is a line of
commands, `StoppedLine(n, user)` one given up at a failing command before its last (the
chat shells only), `PipedLine(n, out, user)` one that ends in `|n` or `!n` and reaches
its last command, `BuiltinLine` setenv, printenv and the chat commands,
`RefusedLine(n)` one whose symbols `symbol_chk` refuses, `EmptyLine(n)` a line without a
command.  `Target` is the walk of `execute_cmdline`: if it is empty the code reads
through NULL (`status = "lost"`); the chat shells read through NULL at an empty line as
well (`"faulted"`).

`user` is true of a line that takes a user's pipe (`<M`, in the chat shells).  Then
`pipe_from_user` has put the FIFO where the list keeps the read end of the numbered pipe
(shm `netshell.c:1099`, select `netshell.c:1084`): the line reads the FIFO (`InputAt`), what was
piped to it is not read by anybody, and where the shared-memory shell closes the read end it closes
the FIFO (`CloseOwnEnds`; 785-788).  `bypassed` remembers these lines.

### CommandLine

A descriptor table maps numbers to what they are open on; `MakePipe` and `Opened`
take the lowest free number, as the kernel does.  This matters: the child closes
every number in `pipes_fd[0..C-1]` and `curnode`, most of which the shell has
closed and some of which have been given out again.  `Start` is a turn of the loop
up to the fork with the child's `dup2` and `close` calls (private to it), `CloseEnds`
the closes after the fork, concurrent with the command, `Wait` the wait and the
decision to go on.  `Lines` are the lines: the first command reads standard input, a
numbered pipe, a FIFO, or a FIFO that has taken the place of the numbered pipe ("over").  A command reads its input to the end or not, then writes, then
succeeds or fails; the server's own standard input is taken to be at its end.
That a command is never killed by SIGPIPE is not assumed but checked (`OutputKept`).

### SelectServer

`sess[u]` numbers the logins, so that a slot's users can be told apart; 0 is
`uid == -1`.  `file[a][b]` is the FIFO `.atob`, `fifofd[b][a]` the reading descriptor
in `clidata[b]`.  A batch of lines is atomic with respect to other clients, as in
the code: `serving` is the client.  A pipe line is `PipeTo(m, s)` (ends in `>m`),
`PipeFrom(n, s)` (ends in `<n`) or `OtherLine(s)`, with `s` the symbol that may end its
first command.  `symbol_chk` falls off its end when `<N` has no pipe; in the
builds of the Makefile the return register then holds the 0 of `pipe_from_user`.
`news` is what the line makes the server say.  A command that reads the pipe it
writes to (`cat <1 >1` of user 1) need not end; the model says what happens if it does.

### SelectLoop

`todo` is what is left of `readfds`.  `Read` takes all a client has sent; if that ends
within a line the server stays with the client (`batch = "part"`).  `Batches` is what the
lines turn out to be, among them lines with a command that does not end (`"endless"`), for
which the server waits for ever.  `ReadEnd` is a
`read` that returns 0: the byte looked at then lies below the buffer, so both outcomes
are there.  `Write` lets SIGPIPE end the server at the second write to a client that
has hung up, and does not return while a client it writes to takes no more (`full`), which
any client may do that does not read; `Drain` is such a client reading again.

One client can therefore stop the server for all.  `manners` says what the clients of a behaviour
keep to: "polite" (nobody hangs up without `exit`), "brief" (every command ends), "attentive" (a
client that takes no more reads again some time).  `Served` is about the behaviours with all
three, `DisconnectNoticed` about those with the last two; `TypeOK` and `SetsRight` are about all.

### ShmServer

`pid[s]` and `box[s]` are `shmdata[s].pid` and `.msg`; a process has its place in the
code, its loop variable, the text it sends, one pending SIGALRM and whether it is
inside `sigMsg`.  `Scan`, `Claim` and `Return` are `client_init` and the assignment of
its result; `Check`, `Put` and `Kill` the three accesses of one turn of `yell`, or of
`tell`; `Show` and `Erase` the two of `sigMsg`, which may come between any two of the
others; `Release` and `Wipe` the first and the last of `clean_cli`.  `kill` with a pid
that has become -1 signals every process.  `orderly` marks the behaviours in which no
connection is made while another is still in `client_init`: the properties that the
race for a record would break are stated for these, and `IdsDistinct` shows the race.

### ShmPipes

`name[a][b]` is what `.atob` names in the directory, `fifofd[b][a]` the descriptor in the
shared record, with the process it belongs to: a number in a record means something to
that process only.  `job[p]` is the line of `p`: the symbol at its end, the one
`symbol_chk` finds before it, the FIFO to write to and the descriptor to read from.  A line
goes through `symbol` (once per symbol), `mknod`, `kill`, `open` (or `blocked`), `read`, `write`,
`forget`, `unlink`.  `Handle` and `Look` are `sigPipe`, which begins before the next step of
its process, as the kernel delivers signals; an `open` it interrupts begins again, since
`signal` restarts system calls.  A line has one command that reads all it is sent and
writes once; longer lines differ in the pipes between their commands, which are the
subject of `CommandLine`.

A descriptor in a record is a number, and a process that finds one of another process there
closes or reads whatever it has under that number itself, or nothing (`Means`, `Closes`).

The code works for users and timings of some kinds only.  A behaviour has a set of
`manners`: "patient" (users take what has been announced), "polite" (nobody leaves while
a line pipes to him), "apart" (no signal comes between the moment a record forgets a FIFO that a
line has taken and the removal of the FIFO).  The run has the behaviours with
all three and those without "patient", whose senders may die in `open`.  `SenderAwaited` fails without
any one of the three, `RecordsMatch` without "polite" or without "apart", and `ReadsWhole`
without "patient" or without "polite".  (That `SenderAwaited` needs "apart" takes more FIFOs and lines
than the run has: two processes, `MaxMade = 3`, `MaxLines = 5`.)

`clean_cli` gives the record up first (`Leave`) and then goes through its descriptors and FIFOs
(`Drop`, `Remove`).  A client may connect at any time and take the record meanwhile
(`Connect`), and what happens then is in the model: the new user may find the descriptors and FIFOs of
the last one, and lose a FIFO that has just been made for him.  No user can avoid this, so it is
not among the manners: `early` remembers the records taken so, and the three properties speak of a behaviour
up to the first time.  Without `early = {}` in `Apart`, TLC finds all three violated.
The stores to `pid` and to `uid` (242-243) are one step; so are, in `Connect`, the search of
`client_init` and its stores, which `ShmServer` has one by one.

### ForkServer and HttpServer

`fds[p]` are the sockets a process holds, `pc[p]` where it is; a process that has exited is
a `"zombie"` until its parent has waited for it, or an `"orphan"` that init has taken.
The table of processes holds `MaxProcs`, so that `fork` fails at times; then the process that
called it exits, as in the code.  `HttpServer` adds what the second child does:
`parseRequest`, `checkResource`, `handleRequest`, `SendFile`, or `ForkCgi`, `CloseOwn`,
`WaitCgi` and, in the program, `Execute`.  Files may be there and readable or not at each look.
A read that finds the browser gone leaves the request unset: any request, or a crash.

### WinSockServer

One action per message handled: `AcceptBrowser` for FD_ACCEPT, `AnswerPage`, `StartBatch` and
`Overrun` for FD_READ of a browser, `WebClose`, `CgiRead`, `CgiClose`.  `queue` is the messages posted;
closing a socket takes none back.  `owner[n]` says who has the socket number `n` now, which the
code cannot know: it only has the number, as `web[i].websocket`, `clients[j].clifd` and the
key of `map`.  `map` is never erased: `erase` comes after the cell has been cleared and is
given the NULL it holds by then (`NP_hw3.cpp:619-620`).  `kind` marks the behaviours in which browsers wait until
their connection is closed ("waiting"), or in which no number the server still knows
is given out again ("fresh"); in the others a late message hits somebody else.

### SocksServer

`inq[e]` and `outq[e]` are the two queues of the socket to the end `e`, with room for
`Capacity` pieces; a piece is what one `read` and one `write` move.  `pos` is the place in
`doRedirect`, `hold` its buffer.  `Write` waits for room in one queue and looks at nothing
else meanwhile.  `Shut` is an end that sends no more, `Close` one that has gone;
`CloseBoth` closes sockets that may hold unread data, which can cost the other side
what was written to it (TCP resets the connection).  The rules are read as
`getFirewallRules` reads them, with both addresses, their masks and both ports, up to `MaxRule` of them; they are a set, since
`firewallAccessCheck` looks for any that matches.  `Permits` is the reading that the
comments of `socks.conf` give and is written without masks.  The two differ for a file with an
empty prefix or more lines than the array holds (`Regular` says which have neither): the
code then refuses more, and `GrantsPermitted` says that it never grants more.

### BatchCgi

`via[h]` is whether host `h` is asked for, and how.  `link[h]` is its socket; `active` is
`is_active`, `watched` is `allfds`, `ready` is `readfds` and `cur` the loop variable.  A
line of the file is two pieces, its words and its end, so that a write can take a part of
it; what a host sends is output and the two letters of its prompt, so that a read can
split it.  `tame` marks the behaviours in which the hosts do what the program counts on:
no read ends between the two letters of a prompt, no output holds them, and no host goes
down before `exit`.  The first is not only in the hosts' hands: an answer that fills the buffer of
`BUFFER_LEN` up to the first letter is split by the program's own `read` (`cgi.c:224`), whatever
the host did.  `LockStep` and `BatchEnds` claim nothing then.  At the end of a file `getline` leaves `cmdline` unset, and what the
memory held is sent: `Junk`, or nothing.

## Runs

Passing runs:

| run | bounds | shows |
|---|---|---|
| `numbered_pipes` | five nodes, N up to 3, the shm shell | a walk over nodes made by two earlier lines, two lines into one pipe, lines given up or refused in between, and a line that takes a user's pipe instead of the numbered one all fit into five nodes.  The other variants of the list and lists whose numbers start at -1 are covered by the proofs; this run has the variant with the most steps, and the part of `PipesHeld` that only it has (`ReadersPending`) |
| `command_line` | the three shells, three commands, pipes of 2 units, one unit written per command | three commands are the least with a number closed, given out again and closed by a later child |
| `select_server` | two slots, three logins, four FIFOs, batches of two lines; two names, two variables | every pair of symbols, self pipes, a slot changing hands with pipes in both directions, names of users who left, exits between the batches of others |
| `select_loop` | two clients of any manners, at most two reads that end within a line | descriptors given out again within and between scans, writes that wait for either client; liveness for the behaviours with all three manners |
| `shm_server` | three processes, two records, at most two at a time, each says one thing besides its greeting and farewell | a third process takes a record that is being cleaned, while messages for its former owner are on their way |
| `shm_pipes` | three processes, two records, two FIFOs, three lines; patient users and others | a record changes hands, clean or while it is being cleaned, with FIFOs to and from its former user; lines that take one pipe and make another; a FIFO left behind by a refused line; a user who pipes to himself |
| `http_server` | two browsers, three processes | the server with both children of one browser, or with a program, fills the table: each fork fails at some time, and zombies count |
| `batch_cgi` | two hosts, files of two lines, reads of four letters, sockets with room for one line | hosts of different kinds in one loop, answers in any pieces, a prompt inside an output, the end of a file, a write that takes a part |
| `winsock_server` | three browsers, two records of two hosts, four socket numbers | a third browser takes the record and the numbers of one that is over, while messages about those are in the queue; a record lost to a finished page; both hosts of a page ending in either order |
| `socks_server` | addresses of 3 bits, two source and two destination ports, an array of two rules, files of up to three lines, with empty prefixes too, queues of one piece, three pieces from each end | rules that match, nearly match, or are cut off; every queue is full or empty at every place of the loop; three pieces put one in each queue and one in the buffer |

Properties with several parts name them: `PipesHeld` (`PendingOpen`, `WritersPending`,
`ReadersPending`), `EndsRight` (`RightEnds`, `InputEnds`, `OutputKept`), `RecordsAgree`
(`FifoConsistent`, `RecordIsOwn`), `SetsRight` (`WatchedAreHeld`, `OwnerFound`), `Served`
(`InboxRead`, `Accepted`), `NeverStuck` (`Delivered`, `TornDown`), `BatchEnds` (`WholeFile`,
`Finishes`).

`CHECK_DEADLOCK FALSE` stands where a bounded session ends (the list is full, the
logins are used up, the processes have gone, the program has ended, the browsers have been served); `command_line`
checks deadlock.

Runs that find the code at odds with the assignment's documents, each a finding in
`PROJECT.json`:

| run | what it shows |
|---|---|
| `disconnect_noticed` | a client that hangs up without `exit` keeps the server in a loop of reads that return 0 |
| `ids_distinct` | two processes claim one record |

Other disagreements met while modelling.  The steps that lead to them are in the models,
and where a definition is named, TLC finds it violated under a copy of the passing
run's configuration:

* A command that writes more than its pipe holds is waited for before its reader is started, and the session stands still (Project1 `netshell.c:463`; project1_spec.txt:38): `CommandLine!LineEnds` with `MaxOut` above the room of a pipe.
* A line that an earlier `|N` pipes to and that takes a user's pipe as well (`<M`) reads the user's pipe only; what was piped to it is lost (shm `netshell.c:1099`, select `netshell.c:1084`; project1_spec.txt:37), and the shared-memory shell, which closes the read ends otherwise, keeps that one: `NumberedPipes` has the exception (`Input`), and `LineList!ReadersPending` without `bypassed` is violated.
* After the `exit` of a user with variables, `clean_clienv` finds no variables to blank, and the next users have them (select `netshell.c:151`; append:14): `SelectServer!OwnValues`.
* A message that has not been shown is overwritten by the next (shm `netshell.c:1051`; project2_spec.txt:193-195): `ShmServer!MessageKept`.
* The signal of `pipe_to_user` is there so that `open` neither waits nor fails (shm `netshell.c:31`, 55-60).  It fails, and ends the sender's process without giving up its record, if the receiver has taken the pipe, or left, by then: `ShmPipes!OpenWorks`.
* A line refused with `Illegal Symbol` logs its user out of the shared-memory server, and the FIFO it has made stays, unannounced, for the receiver to take (shm `netshell.c:387`).
* A record is given up before it is clean (shm `netshell.c:240-260`; append:195-196): whoever connects meanwhile may read what was sent to the last user, or have the FIFO removed that a sender is opening: `SenderAwaited`, `RecordsMatch` and `ReadsWhole` without `early = {}`.
* The process that leaves first marks the shared memory for removal (shm `netshell.c:264`); a server started later does not share it with those still running.
* A browser for whom there is no record left should be told so; the condition of that branch is never true, and the record after the last is written to instead (`NP_hw3.cpp:465-477`): `WinSockServer!InBounds`.  A form, or a finished page, whose browser does not close its end keeps its record.
* A page that has a host that refuses the connection is never closed: FD_CONNECT is not asked for (`NP_hw3.cpp:516`).  `PageEnds` is about the others.
* With browsers that leave and numbers given out again, a late FD_CLOSE of a socket closes the page of another browser (`NP_hw3.cpp:541`, 602): `PageWhole` with `Kinds = {"any"}`.
* `catch (const char *)` would not catch what `map::at` throws (`NP_hw3.cpp:566`, 608).  `OwnPage` says that it does not come to that.
* `cmd >m <n` announces a pipe that `pipe_to_user` has just refused, with the receiver left in `sb_data` by an earlier line (select `netshell.c:419`; project2_spec_append.txt:175, 186-191).
* A line refused with `Illegal Symbol` leaves behind the FIFO it has made, unannounced (select `netshell.c:358`; append:175).
* A pipe from a user who has left is announced as from the new user of the slot (select `netshell.c:408`; append:195-196).
* `printenv` in the packet of the `setenv` before it shows the old value (select `netshell.c:329`; append:16-19).
* A name is refused because a user who has left had it (select `netshell.c:993`; append:111).
* An empty line that was piped to leaves the pipe open in the first shell and ends the chat shells (Project1 `netshell.c:371`, select `netshell.c:482`, shm `netshell.c:508`; project1_spec_append.txt:177-178).
* A write to a host that takes a part of a line: the rest is forgotten (Project3 `cgi.c:233`; hw3_spec.txt:79).  It takes an output that holds the letters of a prompt, or a host with very little room: `LockStep` says that it cannot happen with tame hosts.
* A firewall prefix of no bits matches one address instead of all (`socksServer.c:133`; socks.conf:8): the shift by 32 is undefined and leaves the mask full.  `Masked` has it; `GrantsPermitted` without the condition `Regular(conf)` is violated.

The definitions introduced by "(Changed by a mutation ...)" are variants of the
definition after them with a plausible bug; for every property of a passing run,
`PROJECT.json` ("mutants") names one that violates it.

### Fairness

* `CommandLine!FairCommandSpec`: the kernel schedules shell and command.
* `SelectLoop!FairSpec`: the server takes a step whenever it can, so a command that ends takes a
  finite time; a client that has sent the beginning of a line sends the rest; and in "attentive"
  behaviours a client that takes no more reads again.  The last two are assumptions on
  clients, not on the code, and needed: the server waits in `read` for the one and in `write`
  for the other.  That commands end is not fairness but the manner "brief"; the code
  guarantees none of them, and where one does not hold `Served` claims nothing, since one
  client then stops the server for all (`netshell.c:234`, 781, 1034).
  `MaxPieces` bounds how often one batch is found ending within a line, which the
  buffer of `LINEMAX` bytes bounds in the code.
* `HttpServer!FairSpec`: the kernel schedules every process of the server.  Browsers need
  send nothing, and programs may run for ever; `EveryoneServed` says what that does not hold up.
* `SocksServer!FairSpec`: the process is scheduled, and each end reads what comes
  for it.  Without the second `write` may wait for ever, in the code too.
* `BatchCgi!FairSpec`: the program is scheduled, a connection is made or fails, the SOCKS
  server answers, and each host reads what it is sent.  No host has to answer with
  a prompt unless a whole line reaches it.  A host that reads nothing more while its
  socket is full stops the program, and the other hosts with it; the code has no remedy.

`ShmServer`, `ShmPipes`, `WinSockServer`, `SelectServer` and `LineList` have safety properties only.

## Proofs

Each proof module proves what its model promises for every value of the constants that
the model's named assumption allows; TLC evaluates the assumptions on the constants of
every run.  None of the properties is inductive.  For each component there is an inductive
invariant (`IInv`, `CommandIInv`, `WinIInv`): the initial states have it, each action keeps it,
and the properties follow from it.

| module | theorems | assumption |
|---|---|---|
| `RemoteShellProofs` | of `LineList`: `TypeOK`, `TargetFound`, `PipesHeld` are invariants; `Spec => NP!Spec` | `LineListAssumption` |
| | of `CommandLine`: `CommandTypeOK`, `EndsRight`, `DescriptorsRestored` are invariants | `CommandLineAssumption` |
| `SelectServerProofs` | `TypeOK`, `RecordsAgree`, `NamesDistinct`, `ValuesOfServed` are invariants; the action property `OneReader` | `SelectServerAssumption` |
| `SelectLoopProofs` | `TypeOK`, `SetsRight` are invariants | `SelectLoopAssumption` |
| `ShmServerProofs` | `TypeOK`, `OwnRecord`, `Signalled` are invariants; the action property `ShownOnce` | `ShmServerAssumption` |
| `WebServerProofs` | of `HttpServer`: `TypeOK`, `OwnConnection`, `NoZombies` are invariants | `ForkServerAssumption` |
| | of `WinSockServer`, where `kind` is not "any": `WinTypeOK`, `OwnPage`, `PageEnds` are invariants; the action property `PageWhole` | `WinSockServerAssumption` |
| `SocksServerProofs` | `TypeOK` is an invariant; `Spec => STREAM!Spec`; the action property `GrantsPermitted` | `SocksServerAssumption`, `PowersAssumption` |
| `BatchCgiProofs` | `TypeOK`, `InOrder`, `LockStep` are invariants | `BatchCgiAssumption` |
| `ShmPipesProofs` | `TypeOK`, `SenderAwaited`, `RecordsMatch` are invariants; the action property `ReadsWhole` | `ShmPipesAssumption` |

Two of the modules hold two components, the two halves of the remote shell and the two web
servers.  `PowersAssumption` says that a power of two is a positive number; it is true of
every width, but the provers know nothing of exponents, which are defined by recursion.

The arguments:

* `RemoteShellProofs`, the list.  That the walk finds its node needs to know that the numbers of the
  list are consecutive and that `linecount` is the next one (`Numbered`), and what a
  node that has a pipe must hold.  Lemmas say what `create_linenode` and the walk return;
  `LineKeepsIInv` shows that a line with any target, or none, keeps `IInv`, and each kind of
  line is then shown to be such a line.  An end the shell keeps of a line that is over belongs to a line that
  ran nothing (`idle`) or, in the shared-memory shell, to one that took a user's pipe (`bypassed`); of every
  other it has closed the write end, and that shell the read end.  `ListDelivers` uses `IInv` to see that the target
  found is the line that the abstract pipe leads to.
* `RemoteShellProofs`, one line.  The child closes every number the loop has ever had in
  `pipes_fd`, and most of these are by then something else, so the invariant has to say what
  every number is.  `Table` is a map of the shell's descriptors: a number is what the line found
  there (`Before`), unless the line has given it up (`GivenUp`), or else it is closed or one of the
  few that the loop has opened and not closed again, each known by what is open on it
  (`KeepsFrom`, `KeepsRead`, `KeepsWrite`, `KeepsFile`).  `Turn` is what the loop remembers from
  the fork to the closes after it.  The lowest free number is never 0, 1 or 2, since the shell
  never closes these, so no pipe ever has one of them (`Above`), and what the child closes spares
  its own input and output.  `FewWriters` says who holds the write end of a pipe; a command that
  runs therefore sees its input end.  The two ends of a pipe that a FIFO hides are in `Before` too.  At the end nothing of the loop is left but the ends of the new
  pipe, which is `DescriptorsRestored`.
* `SelectServerProofs`.  A line changes the pipes several times within one step (a symbol
  opens one, another takes one, a refusal leaves one behind).  The state of the pipes is
  therefore a record that is followed through the line: it is sound (`SoundPipes`) at
  every point, before anything is taken it has only grown (`Grown`), and at the end only
  the pipe that was taken is gone (`LineDone`).  Soundness says that a descriptor is that of the
  FIFO in the directory, that the FIFO was made for the login that has the slot, and that no
  FIFO is in two places; it gives `RecordsAgree` and `OneReader`.  `NamesDistinct` holds because the code
  compares with all records, also those of users who have left, and so all of these differ.
  `ValuesOfServed` needs that a value of a user who is there is still in that user's record, so
  that `clean_clienv` finds what to blank.
* `SelectLoopProofs`.  Clients come and hang up between `select` and the end of the scan.
  The invariant says which bits of `todo` may be of clients already read (only the lowest,
  while it is served), that the backlog holds exactly those who wait, each once, and that
  the bit of the listening socket is set only while one waits.
* `ShmServerProofs`.  There is no lock, so the invariant says for each place in the code what
  the process relies on there.  `OwnRecord` is stated for behaviours in which nobody connects
  while another is in `client_init`; then only a newcomer writes a pid, and a record it has
  looked at stays as it was.  `Signalled` holds for all behaviours: a message put into a record
  whose owner does not handle signals yet is followed by the owner's own greeting, which
  is sent to all, its sender included.
* `WebServerProofs`, the HTTP server.  The processes of a connection are a tree of three (`TreeOf`): the first child
  exists only while the server is about to wait for it, the second begins when the first
  does nothing any more but exit, the program runs only while the second waits for it.
* `WebServerProofs`, the WinSock server.  The code knows sockets by number only, so the
  invariant is about numbers.  `Owned` says what they are to the system: one number has one owner,
  and a browser that has not been answered has one number.  `Queued` says what they are to the
  messages posted: a message is about a number that is still what it was, or, where numbers are not
  given out again, that is nothing any more; `OrderlyIn` that nothing follows the end of a
  connection.  `Recorded` and `CellsRight` say what the records still know: a cell at work has the
  number of its own host, and its record that of the browser that asked.  `ServedHave` then
  says that a page that is being served has a record (`PageOf`) with a cell at work for each host
  that has not ended, which `CgiClose` needs to find the last.  The hypothesis that `kind` is not "any"
  cannot go: with `Kinds = {"any"}` TLC finds `OwnPage`, `PageEnds` and `PageWhole` violated.
* `SocksServerProofs`, the relay.  Where a piece is says which number it has: first what an end has
  received, then what has been written to it, then the buffer of `doRedirect` if it goes that
  way, then what has not been read.  Pieces are lost only once the connection of their
  sender or receiver has ended, and nothing gets through behind the gap.
* `SocksServerProofs`, the firewall.  Two addresses are masked to the same number exactly if they
  have the same prefix (`PrefixIs`), but for the empty prefix, whose mask is full.  A rule in the array
  is a permit line of the file, and every such line is there if they fit (`RulesAre`, by counting the
  lines before it).  `Checked` says that until the relay starts the rules are those of the file, and
  that a request past the check is permitted; no reply that grants is sent before.
* `BatchCgiProofs`.  For `InOrder` it is enough to know which line is being written
  (`LineOf`), that all a host was sent before lies below `nextline`, and that what is left
  of a line follows what was taken of it.  For `LockStep` the host and the program take turns
  (`Turns`): the host's output and one prompt are on their way and nothing else, or the program
  writes, or one line, or its end, has still to be run.
* `ShmPipesProofs`.  The invariant has three layers, as the three `manners` have.  `Shape` holds
  of all behaviours: what a line under way can say and hold at each place.  `Kept` needs polite users
  and signals that keep apart from removals: a FIFO in the directory that its receiver's record
  does not know is `Due` (its maker is about to signal, the signal or the handler is under
  way, or its receiver is removing it), and a record that knows one has the number of that FIFO
  and of its own process.  It is stated only until a process dies in `open` (`Alive`), since
  that one leaves a record to nobody; one who leaves clears the record in the order of the loop
  (`Cleared`), which is what makes it clean for the next.  `Awaited` needs patient users too:
  a FIFO is announced only when it is full, and nobody takes it before, so that sender and receiver
  of one FIFO are never both at work on it (`NotTaken`).  Both layers end where a record is
  taken early (`Apart`): until then nobody has a record that another is still going through.  Without `Awaited` a sender can die,
  and without `Alive` there is no `Kept`: the layers are proved together, step by step (`Layers`).

Only model-checked are the liveness properties (`LineEnds`, `Served`, `EveryoneServed`,
`BatchEnds`, `NeverStuck`), which the proof system does not reach: it has no rules for fairness
and `ENABLED`.  Every invariant and every action property that a passing run checks is also a theorem.

## Plan

What would come next: `HttpServer` composed with `BatchCgi` as the program it runs, and `BatchCgi`
with `SocksServer` as its way to a host.

Not modelled, and why: text parsing and HTML layout (no property is about them);
the contents of messages; two copies into one message buffer at the same time (the
letters would mix); socket buffers of slow readers of the chat servers; overflow of
`env[31]`, of `clidata[31]` and of the line buffer (inputs the assignment excludes or undefined
behaviour after which nothing can be said); names and environments of the shared-memory
server (the environment is the process's own; two users who take one name at the same time
get it, since `name` looks and then writes without a lock); requests to the SOCKS server that come in
parts or not at all; host names that are not found (the batch client then watches
its standard input).
