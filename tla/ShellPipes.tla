----------------------------- MODULE ShellPipes -----------------------------
(***************************************************************************)
(* The pipe table of npshell (class Shell) and the shell's own descriptor  *)
(* table: what CreatePipe, GetPipeFd, ErasePipeVector and                  *)
(* CountdownPipeVector do to both while the shell executes one command     *)
(* after another.  Executing a command is two steps, cut where the shell   *)
(* may block in waitpid: Begin (redirect the output, take the due pipe,    *)
(* fork) and Finish (close and drop the due pipe, count down).             *)
(*                                                                         *)
(* A descriptor is open on an end: <<"w", k>> and <<"r", k>> are the write *)
(* and the read end of the pipe created for command k, <<"file", k>> the   *)
(* file command k is redirected to.  The kernel hands out the lowest free  *)
(* descriptor.                                                             *)
(***************************************************************************)
EXTENDS Integers

CONSTANTS
    Fd,          \* the descriptors of the shell besides 0, 1 and 2
    Command,     \* the commands a user may type
    MaxCmd       \* bound: the number of commands executed in a run

(* A command is a program with the redirection that ends it: none, a file  *)
(* (>, >> or &>), or a pipe (| or !) with the number num.  The programs    *)
(* "builtin" (printenv, setenv) and "exit" are executed by the shell       *)
(* itself; every other one is forked.                                      *)
Program == {"noop", "cat", "builtin", "exit"}
Redirection == {"none", "file", "pipe"}

ASSUME FdAssumption == Fd \subseteq Nat
ASSUME CommandAssumption ==
    Command \subseteq [prog : Program, op : Redirection, num : Int]
ASSUME MaxCmdAssumption == MaxCmd \in Nat

VARIABLES
    now,            \* the number of the next command
    phase,          \* "ready" for a command, or "ran": forked, not yet tidied up
    alive,          \* FALSE once the shell has exited
    pipe_vector_,   \* the pending pipes (their counts differ, so order is immaterial)
    fdt,            \* the shell's descriptor table
    wrote,          \* history: <<k, c>>, command c writes to the pipe made for k
    got             \* history: <<r, c>>, the input of command r holds c's output

pipeVars == <<now, phase, alive, pipe_vector_, fdt, wrote, got>>

Closed == <<"closed", 0>>
End == {Closed} \cup ({"r", "w", "file"} \X Nat)
PipeFd == [in_fd : Fd, out_fd : Fd, count : Int]

TypeOK ==
    /\ now \in Nat \ {0}
    /\ phase \in {"ready", "ran"}
    /\ alive \in BOOLEAN
    /\ pipe_vector_ \subseteq PipeFd
    /\ fdt \in [Fd -> End]
    /\ wrote \subseteq Nat \X Nat
    /\ got \subseteq Nat \X Nat

(* Mutation of Init: commands are numbered from 0.                         *)
InitFromZero ==
    /\ now = 0
    /\ phase = "ready"
    /\ alive = TRUE
    /\ pipe_vector_ = {}
    /\ fdt = [f \in Fd |-> Closed]
    /\ wrote = {}
    /\ got = {}

Init ==
    /\ now = 1
    /\ phase = "ready"
    /\ alive = TRUE
    /\ pipe_vector_ = {}
    /\ fdt = [f \in Fd |-> Closed]
    /\ wrote = {}
    /\ got = {}

Forked(c) == c.prog \notin {"builtin", "exit"}

-----------------------------------------------------------------------------
(* Each operation that redirects the output yields the set of its possible *)
(* results: the pipe table, the descriptor table, and the descriptor that  *)
(* replaces standard output (none when it stays on the terminal).          *)

Result(pv, t, fds) == [pv |-> pv, t |-> t, out |-> fds]

Free == {f \in Fd : fdt[f] = Closed}
Lowest(fds) == {f \in fds : \A g \in fds : f <= g}

(* A pipe that falls due at the same command is reused; otherwise a new    *)
(* one is made.  pipe() fails, and the set is empty, when fewer than two   *)
(* descriptors are free.                                                   *)
(* Mutation of NewPipe: the two ends are confused in the entry.            *)
NewPipeSwapped(w, r, n) ==
    Result(pipe_vector_ \cup {[in_fd |-> r, out_fd |-> w, count |-> n]},
           [fdt EXCEPT ![w] = <<"w", now>>, ![r] = <<"r", now>>],
           {w})

NewPipe(w, r, n) ==
    Result(pipe_vector_ \cup {[in_fd |-> w, out_fd |-> r, count |-> n]},
           [fdt EXCEPT ![w] = <<"w", now>>, ![r] = <<"r", now>>],
           {w})

(* Mutation of SamePipe: a pipe is never reused.                           *)
NoSamePipe(n) == {}

SamePipe(n) == {e \in pipe_vector_ : e.count = n}

CreatePipe(n) ==
    IF SamePipe(n) # {}
      THEN {Result(pipe_vector_, fdt, {e.in_fd}) : e \in SamePipe(n)}
      ELSE UNION {{NewPipe(w, r, n) : w \in Lowest(Free \ {r})} : r \in Lowest(Free)}

(* The file's descriptor is never closed by the shell.  When none is free  *)
(* open fails, and so does the child's dup2: its output stays where it is. *)
OpenFile ==
    IF Free = {}
      THEN {Result(pipe_vector_, fdt, {})}
      ELSE {Result(pipe_vector_, [fdt EXCEPT ![f] = <<"file", now>>], {f}) : f \in Lowest(Free)}

Redirect(c) ==
    CASE c.op = "pipe" -> CreatePipe(c.num)
      [] c.op = "file" -> OpenFile
      [] c.op = "none" -> {Result(pipe_vector_, fdt, {})}

Due(pv) == {e \in pv : e.count = 0}

CloseAll(t, fds) == [f \in Fd |-> IF f \in fds THEN Closed ELSE t[f]]

(* The due pipe becomes the command's input; its write end is closed.      *)
(* Mutation of GetPipeFd: the write end is left open.                      *)
GetPipeFdOpen(pv, t) == t

GetPipeFd(pv, t) == CloseAll(t, {e.in_fd : e \in Due(pv)})

(* The child's dup2 of its output and input: it writes to the pipe it was  *)
(* redirected to, if that end is still open, and reads every output that   *)
(* was written to the due pipe.                                            *)
WritesTo(out, t) == {<<t[f][2], now>> : f \in {g \in out : t[g][1] = "w"}}

ReadsFrom(pv, t) ==
    {<<now, p[2]>> : p \in {q \in wrote : \E e \in Due(pv) : t[e.out_fd] = <<"r", q[1]>>}}

(* fork, with the descriptors t; a built-in is executed without.           *)
ExecCmd(c, pv, t, out) ==
    /\ wrote' = IF Forked(c) THEN wrote \cup WritesTo(out, t) ELSE wrote
    /\ got' = IF Forked(c) THEN got \cup ReadsFrom(pv, t) ELSE got

Ready == phase = "ready" /\ alive /\ now <= MaxCmd

Begin(c) ==
    /\ Ready
    /\ c.prog # "exit"
    /\ \E r \in Redirect(c) :
          /\ pipe_vector_' = r.pv
          /\ fdt' = GetPipeFd(r.pv, r.t)
          /\ ExecCmd(c, r.pv, GetPipeFd(r.pv, r.t), r.out)
    /\ phase' = "ran"
    /\ now' = now + 1
    /\ UNCHANGED alive

(* The shell ends: exit, or no descriptors for a pipe.                     *)
Exit(c) ==
    /\ Ready
    /\ c.prog = "exit" \/ Redirect(c) = {}
    /\ alive' = FALSE
    /\ UNCHANGED <<now, phase, pipe_vector_, fdt, wrote, got>>

EndOfInput ==
    /\ phase = "ready"
    /\ alive
    /\ alive' = FALSE
    /\ UNCHANGED <<now, phase, pipe_vector_, fdt, wrote, got>>

(* The due pipe is closed (its write end a second time) and dropped.       *)
ErasePipeVector(pv) == pv \ Due(pv)
(* Mutations of EraseCloses: the read end is forgotten; pipes whose turn    *)
(* never comes are closed without being dropped.                           *)
EraseForgetsReadEnd(pv) == {e.in_fd : e \in Due(pv)}
EraseClosesLost(pv) == UNION {{e.in_fd, e.out_fd} : e \in {d \in pv : d.count <= 0}}

EraseCloses(pv) == UNION {{e.in_fd, e.out_fd} : e \in Due(pv)}

CountdownPipeVector(pv) == {[e EXCEPT !.count = @ - 1] : e \in pv}

(* Mutation of Finish: the pipes are counted down before the due one is    *)
(* dropped.                                                                *)
FinishSwapped ==
    /\ phase = "ran"
    /\ alive
    /\ fdt' = CloseAll(fdt, EraseCloses(CountdownPipeVector(pipe_vector_)))
    /\ pipe_vector_' = ErasePipeVector(CountdownPipeVector(pipe_vector_))
    /\ phase' = "ready"
    /\ UNCHANGED <<now, alive, wrote, got>>

Finish ==
    /\ phase = "ran"
    /\ alive
    /\ fdt' = CloseAll(fdt, EraseCloses(pipe_vector_))
    /\ pipe_vector_' = CountdownPipeVector(ErasePipeVector(pipe_vector_))
    /\ phase' = "ready"
    /\ UNCHANGED <<now, alive, wrote, got>>

Next ==
    \/ \E c \in Command : Begin(c)
    \/ \E c \in Command : Exit(c)
    \/ EndOfInput
    \/ Finish

Spec == Init /\ [][Next]_pipeVars

-----------------------------------------------------------------------------
(* At most one pipe is due at a command.  GetPipeFd walks the whole table  *)
(* and keeps the last match, so with two due pipes one input would be lost.*)
UniqueCounts == \A d, e \in pipe_vector_ : d.count = e.count => d = e

(* Every pending pipe is intact: its two descriptors are the two ends of   *)
(* one pipe.  Only the pipe that was just handed to a command has its      *)
(* write end closed already.                                               *)
WriteEndClosed(e) == phase = "ran" /\ e.count = 0

PipesIntact ==
    \A e \in pipe_vector_ : \E k \in 1 .. now - 1 :
        /\ fdt[e.out_fd] = <<"r", k>>
        /\ fdt[e.in_fd] = IF WriteEndClosed(e) THEN Closed ELSE <<"w", k>>

(* A pipe descriptor belongs to exactly one pending pipe: none is leaked   *)
(* when a pipe is dropped, and no two entries share one, so the second     *)
(* close in ErasePipeVector cannot hit a descriptor in use.                *)
Owners(f) == {e \in pipe_vector_ : f \in {e.in_fd, e.out_fd}}

OneOwner ==
    /\ \A f \in Fd : fdt[f][1] \in {"r", "w"} => Owners(f) # {}
    /\ \A f \in Fd : \A d, e \in Owners(f) : d = e

(* The two tables agree: every pipe in the pipe table has its descriptors, *)
(* and every pipe descriptor its pipe.                                     *)
TableIntact == UniqueCounts /\ PipesIntact /\ OneOwner

(* Closing is confined to the due pipe: in any step a descriptor that was  *)
(* open and is not any more is one of the pipe whose turn it is, never the *)
(* file of a redirection nor an end of a pipe still pending.               *)
CloseOnlyDue ==
    [][\A f \in Fd : fdt[f] # Closed /\ fdt'[f] = Closed =>
          \E e \in Due(pipe_vector_) : f \in {e.in_fd, e.out_fd}]_pipeVars

-----------------------------------------------------------------------------
(* The table implements the numbered pipes of NumberedPipe.  Between Begin *)
(* and Finish the counts lag one command behind now, and the pipe with     *)
(* count 0 has been delivered already.  A pipe with a negative count is    *)
(* lost: it stays in the table and falls due never.                        *)
Lag == IF phase = "ran" THEN 1 ELSE 0

LivePipes(p) == {e \in pipe_vector_ : e.count >= Lag /\ fdt[e.out_fd] = <<"r", p[1]>>}

Pending == UNION {{<<p[2], now + e.count - Lag>> : e \in LivePipes(p)} : p \in wrote}

Offset == {c.num : c \in Command}

Promise == INSTANCE NumberedPipe WITH pending <- Pending

(* Every execution of the shell's table is one that NumberedPipe allows:   *)
(* output is delivered to the command it was numbered for and to no other, *)
(* and outputs that meet at a command are merged.                          *)
ImplementsPromise == Promise!Spec
=============================================================================
