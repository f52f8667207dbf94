---------------------------- MODULE NumberedPipe ----------------------------
(***************************************************************************)
(* What the shell's numbered pipes promise, without descriptors.  Commands *)
(* are numbered 1, 2, 3, ... in the order the shell executes them, across  *)
(* pipelines and lines.  The output of a command that ends in |n is the    *)
(* input of the n-th command after it; outputs that fall due at the same   *)
(* command are merged into one input.  A command the shell executes itself *)
(* (printenv, setenv) uses up its turn: the input that was due to it is    *)
(* discarded, and it writes nothing to a pipe.                             *)
(***************************************************************************)
EXTENDS Integers

CONSTANTS
    Offset,      \* the numbers a user may write after a pipe sign
    MaxCmd       \* bound: the number of commands executed in a run

ASSUME OffsetAssumption == Offset \subseteq Int
ASSUME MaxCmdAssumption == MaxCmd \in Nat

VARIABLES
    now,         \* the number of the next command
    pending,     \* pairs <<src, due>>: command due will read src's output
    got          \* pairs <<reader, src>>: reader was given src's output

vars == <<now, pending, got>>

TypeOK ==
    /\ now \in Nat \ {0}
    /\ pending \subseteq Nat \X Int
    /\ got \subseteq Nat \X Nat

(* Mutation of Init: commands are numbered from 0.                         *)
InitFromZero ==
    /\ now = 0
    /\ pending = {}
    /\ got = {}

Init ==
    /\ now = 1
    /\ pending = {}
    /\ got = {}

(* The command whose turn it is takes everything that is due at it.  A     *)
(* program (forks) reads it, a built-in discards it.                       *)
Input(forks) == {<<now, p[1]>> : p \in {q \in pending : forks /\ q[2] = now}}

(* Mutation of Output: the number is not checked for being positive.       *)
OutputUnchecked(forks, n) == {<<now, now + d>> : d \in {m \in {n} : forks}}

(* What a program leaves for later when its line says |n.  A number that   *)
(* is not positive names no later command: that output is lost.            *)
Output(forks, n) == {<<now, now + d>> : d \in {m \in {n} : forks /\ m > 0}}

NoPipe == 0      \* the command does not end in a pipe sign

(* Mutation of Execute: what was read stays pending.                       *)
ExecuteKeeps(forks, n) ==
    /\ now <= MaxCmd
    /\ got' = got \cup Input(forks)
    /\ pending' = pending \cup Output(forks, n)
    /\ now' = now + 1

Execute(forks, n) ==
    /\ now <= MaxCmd
    /\ got' = got \cup Input(forks)
    /\ pending' = {p \in pending : p[2] # now} \cup Output(forks, n)
    /\ now' = now + 1

Next == \E forks \in BOOLEAN, n \in Offset \cup {NoPipe} : Execute(forks, n)

Spec == Init /\ [][Next]_vars

-----------------------------------------------------------------------------
(* No output is ever overdue: at each prompt whatever is still pending is  *)
(* due at the next command or later, so nothing misses its turn and waits  *)
(* in the table for ever.                                                  *)
NothingOverdue == \A p \in pending : p[2] >= now /\ p[1] < now

(* An output is read once: it has one reader, which was executed after it, *)
(* and once read it is no longer pending.                                  *)
ReadOnce ==
    /\ \A g, h \in got : g[2] = h[2] => g[1] = h[1]
    /\ \A g \in got : g[2] < g[1] /\ \A p \in pending : p[1] # g[2]

(* Delivery: nothing misses its turn, and nothing is read twice.           *)
Delivery == NothingOverdue /\ ReadOnce
=============================================================================
