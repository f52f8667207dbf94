------------------------------ MODULE NpShell ------------------------------
(***************************************************************************)
(* npshell with its children: the loop of Shell::Exec over input lines,    *)
(* the table of ShellPipes for every command of a line, fork, the children *)
(* reading and writing pipes of bounded capacity, waitpid, and the SIGCHLD *)
(* handler.                                                                *)
(*                                                                         *)
(* Two kinds of program are run.  "noop" exits at once and touches neither *)
(* input nor output (an unknown command does the same).  "cat" copies its  *)
(* input until end of file; without a pipe for input it prints the file    *)
(* named in its argument, FileSize units long.                             *)
(*                                                                         *)
(* fork copies the whole descriptor table and nothing is close-on-exec: a  *)
(* child keeps both ends of every pipe that is pending when it is forked.  *)
(* Since that includes the read end of the pipe it writes to itself, a     *)
(* writer never gets EPIPE (WriterKeepsReader), so no action models it.    *)
(***************************************************************************)
EXTENDS ShellPipes, Sequences

CONSTANTS
    Line,        \* the lines a user may type, each a sequence of commands
    Cap,         \* units a pipe can hold
    FileSize     \* units in a file that "cat" prints

ASSUME LineAssumption == Line \subseteq Seq(Command) \ {<<>>}
ASSUME CapAssumption == Cap \in Nat \ {0}
ASSUME FileSizeAssumption == FileSize \in Nat

VARIABLES
    cmds_,       \* the commands of the line still to be executed
    last,        \* the command executed last
    proc,        \* the child forked for each command
    buf,         \* the units in the pipe made for each command
    sigchld      \* a SIGCHLD is pending for the shell

childVars == <<proc, buf, sigchld>>
npVars == <<pipeVars, cmds_, last, childVars>>

Cmd == 1 .. MaxCmd

Child ==
    [st : {"none", "running", "zombie", "reaped"}, prog : {"noop", "cat"}, in : SUBSET Cmd,
     out : SUBSET Cmd, held : SUBSET ({"r", "w", "file"} \X Cmd), left : Nat]

NoChild == [st |-> "none", prog |-> "noop", in |-> {}, out |-> {}, held |-> {}, left |-> 0]

NpTypeOK ==
    /\ TypeOK
    /\ cmds_ \in Seq(Command)
    /\ last \in [prog : Program, op : Redirection, num : Int]
    /\ proc \in [Cmd -> Child]
    /\ buf \in [Cmd -> 0 .. Cap]
    /\ sigchld \in BOOLEAN

NpInit ==
    /\ Init
    /\ cmds_ = <<>>
    /\ last = [prog |-> "builtin", op |-> "none", num |-> 0]
    /\ proc = [c \in Cmd |-> NoChild]
    /\ buf = [c \in Cmd |-> 0]
    /\ sigchld = FALSE

-----------------------------------------------------------------------------
(* The shell.                                                              *)

Prompt == alive /\ phase = "ready" /\ cmds_ = <<>>

ReadLine ==
    /\ Prompt
    /\ \E l \in Line : now + Len(l) - 1 <= MaxCmd /\ cmds_' = l
    /\ UNCHANGED <<pipeVars, last, childVars>>

Leave ==
    /\ cmds_ = <<>>
    /\ EndOfInput
    /\ UNCHANGED <<cmds_, last, childVars>>

(* The child that Begin forks: its input is the due pipe, its output the   *)
(* pipe it was redirected to, and it holds every descriptor of the shell.  *)
(* Mutation of Fork: the child closes every read end but its input.        *)
ForkDropsReadEnds(c) ==
    LET in == {fdt'[e.out_fd][2] : e \in Due(pipe_vector_')}
    IN  [st |-> "running",
         prog |-> c.prog,
         in |-> in,
         out |-> {p[1] : p \in wrote' \ wrote},
         held |-> {x \in {fdt'[f] : f \in Fd} : x[1] \in {"w", "file"}},
         left |-> IF c.prog = "cat" /\ in = {} THEN FileSize ELSE 0]

Fork(c) ==
    LET in == {fdt'[e.out_fd][2] : e \in Due(pipe_vector_')}
    IN  [st |-> "running",
         prog |-> c.prog,
         in |-> in,
         out |-> {p[1] : p \in wrote' \ wrote},
         held |-> {fdt'[f] : f \in Fd} \ {Closed},
         left |-> IF c.prog = "cat" /\ in = {} THEN FileSize ELSE 0]

Exec ==
    /\ cmds_ # <<>>
    /\ Begin(Head(cmds_))
    /\ cmds_' = Tail(cmds_)
    /\ last' = Head(cmds_)
    /\ proc' = IF Forked(Head(cmds_)) THEN [proc EXCEPT ![now] = Fork(Head(cmds_))] ELSE proc
    /\ UNCHANGED <<buf, sigchld>>

Quit ==
    /\ cmds_ # <<>>
    /\ Exit(Head(cmds_))
    /\ UNCHANGED <<cmds_, last, childVars>>

(* waitpid is called for the last command of the line, unless its output   *)
(* goes to a pipe.  It returns when the child is dead; the handler may     *)
(* have reaped it first, then it fails with ECHILD.                        *)
(* Mutations of InForeground: a command with its output in a file is not   *)
(* waited for; the last command is waited for even if it ends in a pipe.   *)
ForegroundUnlessRedirected == cmds_ = <<>> /\ last.op = "none" /\ Forked(last)
ForegroundAlways == cmds_ = <<>> /\ Forked(last)

InForeground == cmds_ = <<>> /\ last.op # "pipe" /\ Forked(last)

Running(c) == proc[c].st = "running"

Tidy ==
    /\ Finish
    /\ InForeground => ~Running(now - 1)
    /\ proc' = IF InForeground THEN [proc EXCEPT ![now - 1].st = "reaped"] ELSE proc
    /\ UNCHANGED <<cmds_, last, buf, sigchld>>

(* The handler reaps until waitpid finds no dead child: one SIGCHLD may    *)
(* stand for several.                                                      *)
(* Mutation of ChildHandler: one child is reaped for a signal.             *)
ChildHandlerOnce ==
    /\ alive
    /\ sigchld
    /\ sigchld' = FALSE
    /\ \/ \E c \in Cmd : proc[c].st = "zombie" /\ proc' = [proc EXCEPT ![c].st = "reaped"]
       \/ (\A c \in Cmd : proc[c].st # "zombie") /\ UNCHANGED proc
    /\ UNCHANGED <<pipeVars, cmds_, last, buf>>

ChildHandler ==
    /\ alive
    /\ sigchld
    /\ sigchld' = FALSE
    /\ proc' = [c \in Cmd |-> IF proc[c].st = "zombie"
                                THEN [proc[c] EXCEPT !.st = "reaped"] ELSE proc[c]]
    /\ UNCHANGED <<pipeVars, cmds_, last, buf>>

-----------------------------------------------------------------------------
(* The children.                                                           *)

Holders(end) == {c \in Cmd : Running(c) /\ end \in proc[c].held}
ShellHolds(end) == alive /\ \E f \in Fd : fdt[f] = end

(* Mutation of CanRead: an empty pipe is read from.                        *)
CanReadEmpty(c) == proc[c].prog = "cat" /\ proc[c].left = 0 /\ proc[c].in # {}

CanRead(c) == proc[c].prog = "cat" /\ proc[c].left = 0 /\ \E k \in proc[c].in : buf[k] > 0
CanWrite(c) == proc[c].left > 0 /\ \A k \in proc[c].out : buf[k] < Cap
AtEOF(c) ==
    \A k \in proc[c].in :
        buf[k] = 0 /\ Holders(<<"w", k>>) = {} /\ ~ShellHolds(<<"w", k>>)
Finished(c) == proc[c].prog = "noop" \/ (proc[c].left = 0 /\ AtEOF(c))

ReadUnit(c) ==
    /\ Running(c)
    /\ CanRead(c)
    /\ buf' = [k \in Cmd |-> IF k \in proc[c].in THEN buf[k] - 1 ELSE buf[k]]
    /\ proc' = [proc EXCEPT ![c].left = 1]
    /\ UNCHANGED <<pipeVars, cmds_, last, sigchld>>

WriteUnit(c) ==
    /\ Running(c)
    /\ CanWrite(c)
    /\ buf' = [k \in Cmd |-> IF k \in proc[c].out THEN buf[k] + 1 ELSE buf[k]]
    /\ proc' = [proc EXCEPT ![c].left = @ - 1]
    /\ UNCHANGED <<pipeVars, cmds_, last, sigchld>>

ChildExit(c) ==
    /\ Running(c)
    /\ Finished(c)
    /\ proc' = [proc EXCEPT ![c].st = "zombie"]
    /\ sigchld' = TRUE
    /\ UNCHANGED <<pipeVars, cmds_, last, buf>>

ChildStep(c) == ReadUnit(c) \/ WriteUnit(c) \/ ChildExit(c)
ShellStep == Exec \/ Quit \/ Tidy

NpNext ==
    \/ ReadLine
    \/ Leave
    \/ ShellStep
    \/ ChildHandler
    \/ \E c \in Cmd : ChildStep(c)

NpSpec == NpInit /\ [][NpNext]_npVars

(* The kernel schedules the shell, its signal handler and every child; the *)
(* user owes nothing.                                                      *)
NpFairSpec ==
    /\ NpSpec
    /\ WF_npVars(ShellStep)
    /\ WF_npVars(ChildHandler)
    /\ \A c \in Cmd : WF_npVars(ChildStep(c))

-----------------------------------------------------------------------------
(* Why no child gets EPIPE: a process that writes to a pipe also holds its *)
(* read end, inherited from the shell's table.                             *)
WriterKeepsReader ==
    \A c \in Cmd : Running(c) => \A k \in proc[c].out : <<"r", k>> \in proc[c].held

(* A reader waits for end of file only on children forked before it, and   *)
(* never on the shell or on itself: the waiting cannot go round in a       *)
(* circle, although children inherit ends they do not use.                 *)
WaitsOnlyBackwards ==
    \A c \in Cmd : Running(c) =>
        \A k \in proc[c].in :
            /\ \A d \in Holders(<<"w", k>>) : d < c
            /\ ~ShellHolds(<<"w", k>>)

(* When the shell prompts after a line whose last command did not go to a  *)
(* pipe, that command is done; and if it read its input to the end, so is  *)
(* every command that wrote to it.  The prompt comes after the output.     *)
PromptAfterOutput ==
    Prompt /\ now > 1 /\ Forked(last) /\ last.op # "pipe" =>
        /\ ~Running(now - 1)
        /\ last.prog = "cat" => \A s \in Cmd : <<now - 1, s>> \in got => ~Running(s)

(* The shell comes back to its prompt after every line, or exits.          *)
PromptReturns == (alive /\ ~Prompt) ~> (Prompt \/ ~alive)

(* Every child comes to an end, also when the output it writes is due at a *)
(* command that has not been typed yet.  It takes pipes that can hold what *)
(* is written to them.                                                     *)
EveryChildEnds == \A c \in Cmd : Running(c) ~> ~Running(c)

(* Nothing is waited for without end, by the shell or by a child.          *)
NobodyHangs == PromptReturns /\ EveryChildEnds

(* No dead child stays a zombie while the shell lives, although signals    *)
(* are not counted and the foreground child is reaped from two places.     *)
ZombiesReaped ==
    \A c \in Cmd : proc[c].st = "zombie" ~> (proc[c].st = "reaped" \/ ~alive)

(* With full pipes the shell can get stuck in waitpid, but only through    *)
(* inheritance: then some child keeps the write end of a pipe open that    *)
(* it does not write to.                                                   *)
Stuck ==
    /\ alive
    /\ phase = "ran"
    /\ InForeground
    /\ \A c \in Cmd : Running(c) => ~(CanRead(c) \/ CanWrite(c) \/ Finished(c))
    /\ Running(now - 1)

Bystanders(k) == {c \in Holders(<<"w", k>>) : k \notin proc[c].out}

StuckOnlyByInheritance == Stuck => \E k \in Cmd : Bystanders(k) # {}
=============================================================================
