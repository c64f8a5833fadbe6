------------------------------- MODULE Replay --------------------------------
(***************************************************************************)
(* The replay engine of ripster (selfie.c 12270-12329): every instruction  *)
(* records the program counter and the value it is about to overwrite in a *)
(* circular trace; when a context divides by zero the recorded             *)
(* instructions are undone, and then executed again with output.           *)
(*                                                                         *)
(* Instructions are kept by what they record and undo: one kind stands for *)
(* all that overwrite a register from registers.  The contexts run the     *)
(* same code, each on registers and memory of its own, and a context       *)
(* switch may follow any instruction; the trace is one for all of them.    *)
(***************************************************************************)
EXTENDS Integers, Sequences, FiniteSets

CONSTANTS
  Ctx,        \* contexts
  MaxTrace,   \* MAX_REPLAY_LENGTH
  MaxTime,    \* bound: instructions recorded
  Programs    \* programs to look at

Word == {0, 1}      \* values, which are addresses of memory as well
Reg  == {"a0", "t0"}

(* The instructions of a program whose addresses are Line.                 *)
Instruction(Line) ==
  [op : {"alu", "load", "store", "divu"}, rd : Reg, rs : Reg]
  \cup [op : {"beq"}, to : Line] \cup [op : {"jal"}, rd : Reg, to : Line]
  \cup {[op |-> "ecall"]}

ASSUME ReplayAssumption ==
  /\ MaxTrace \in Nat \ {0} /\ MaxTime \in Nat
  /\ \A p \in Programs :
       /\ Cardinality(DOMAIN p) \in Nat \ {0}
       /\ p \in [0 .. (Cardinality(DOMAIN p) - 1) -> Instruction(DOMAIN p)]

VARIABLES
  code,       \* address -> instruction, the last followed by the first
  gc,         \* the kernel collects garbage: a call may be malloc's
  cur,        \* current_context
  pc,         \* context -> program counter
  reg,        \* context -> registers
  mem,        \* context -> memory
  mapped,     \* context -> words of memory that are mapped
  tc,         \* trace counter
  pcs, values,\* the trace
  phase,      \* "run", "undo", "redo", "done", "crashed"
  tl,         \* instructions left to undo or to redo
  past,       \* history: the state before every recorded instruction
  partial     \* history: times of the calls of which the trace is not all

context == <<pc, reg, mem>>
replayVars == <<code, gc, cur, context, mapped, tc, pcs, values, phase, tl, past, partial>>

State(c) == <<c, pc[c], reg[c], mem[c]>>

ReplayInit ==
  /\ code \in Programs /\ gc \in BOOLEAN
  /\ cur \in Ctx
  /\ pc = [c \in Ctx |-> 0]
  /\ reg = [c \in Ctx |-> [r \in Reg |-> 0]]
  /\ mem = [c \in Ctx |-> [w \in Word |-> 0]]
  /\ mapped = [c \in Ctx |-> {0}]
  /\ tc = 0
  /\ pcs = [i \in 0..(MaxTrace - 1) |-> 0] /\ values = [i \in 0..(MaxTrace - 1) |-> 0]
  /\ phase = "run" /\ tl = 0
  /\ past = <<>> /\ partial = {}

-----------------------------------------------------------------------------
Slot(t) == t % MaxTrace
Now == code[pc[cur]]
After(p) == (p + 1) % Cardinality(DOMAIN code)

(* The address a load or a store uses.                                     *)
Address == reg[cur][Now.rs]
Faults == Now.op \in {"load", "store"} /\ Address \notin mapped[cur]
Divides == Now.op = "divu" /\ reg[cur][Now.rs] = 0

(* The value the instruction is about to overwrite.                        *)
Overwritten ==
  CASE Now.op = "store" -> mem[cur][Address]
    [] Now.op = "beq"   -> 0
    [] Now.op = "ecall" -> reg[cur]["a0"]
    [] OTHER            -> reg[cur][Now.rd]

(* record_state; the counter is bounded by MaxTime.                        *)
Record ==
  /\ tc < MaxTime
  /\ pcs' = [pcs EXCEPT ![Slot(tc)] = pc[cur]]
  /\ values' = [values EXCEPT ![Slot(tc)] = Overwritten]
  /\ tc' = tc + 1 /\ past' = Append(past, State(cur))

(* What the instruction does to the current context.                       *)
Jump(p) == pc' = [pc EXCEPT ![cur] = p]
Advance == Jump(After(pc[cur]))
Write(r, v) == reg' = [reg EXCEPT ![cur][r] = v]

Execute ==
  \/ Now.op = "alu" /\ Write(Now.rd, 1 - reg[cur][Now.rs]) /\ Advance /\ UNCHANGED mem
  \/ Now.op = "load" /\ Write(Now.rd, mem[cur][Address]) /\ Advance /\ UNCHANGED mem
  \/ Now.op = "store" /\ mem' = [mem EXCEPT ![cur][Address] = reg[cur][Now.rd]]
     /\ Advance /\ UNCHANGED reg
  \/ Now.op = "beq" /\ UNCHANGED <<reg, mem>>
     /\ IF reg[cur]["a0"] = reg[cur]["t0"] THEN Jump(Now.to) ELSE Advance
  \/ Now.op = "jal" /\ Write(Now.rd, 1) /\ Jump(Now.to) /\ UNCHANGED mem
  \/ Now.op = "divu" /\ ~Divides
     /\ Write(Now.rd, reg[cur][Now.rd] \div reg[cur][Now.rs]) /\ Advance /\ UNCHANGED mem

Unrecorded == UNCHANGED <<tc, pcs, values, past>>
Static == UNCHANGED <<code, gc>>

-----------------------------------------------------------------------------
(* An instruction is recorded and executed.                                *)
Step ==
  /\ phase = "run" /\ ~Faults /\ ~Divides /\ Now.op # "ecall"
  /\ Record /\ Execute
  /\ Static /\ UNCHANGED <<cur, mapped, phase, tl, partial>>

(* A load or a store that faults is not recorded; the kernel maps the page.*)
PageFault ==
  /\ phase = "run" /\ Faults
  /\ mapped' = [mapped EXCEPT ![cur] = @ \cup {Address}]
  /\ Static /\ Unrecorded /\ UNCHANGED <<cur, context, phase, tl, partial>>

(* A system call returns any value in a0, to the next instruction.  The    *)
(* one of malloc under the garbage collector skips what follows (10683),   *)
(* and read stores to memory.                                              *)
Call ==
  /\ phase = "run" /\ Now.op = "ecall"
  /\ Record
  /\ \E v \in Word : Write("a0", v)
  /\ \/ Advance /\ UNCHANGED <<mem, partial>>
     \/ gc /\ Jump(After(After(pc[cur]))) /\ UNCHANGED mem /\ partial' = partial \cup {tc}
     \/ /\ Advance /\ partial' = partial \cup {tc}
        /\ \E w \in mapped[cur], v \in Word : mem' = [mem EXCEPT ![cur][w] = v]
  /\ Static /\ UNCHANGED <<cur, mapped, phase, tl>>

(* The call blocks the context: it is recorded each time it is executed.   *)
Block ==
  /\ phase = "run" /\ Now.op = "ecall" /\ Ctx # {cur}
  /\ Record
  /\ cur' \in Ctx \ {cur}
  /\ partial' = partial \cup {tc}
  /\ Static /\ UNCHANGED <<context, mapped, phase, tl>>

(* A timer interrupt                                                       *)
SwitchContext ==
  /\ phase = "run"
  /\ cur' \in Ctx \ {cur}
  /\ Static /\ Unrecorded /\ UNCHANGED <<context, mapped, phase, tl, partial>>

(* Mutant of Length: a trace that has wrapped is undone to its beginning.  *)
LengthAll == tc + 1
Length == IF tc + 1 < MaxTrace THEN tc + 1 ELSE MaxTrace

(* A division by zero is recorded as well, and replay starts.              *)
DivisionByZero ==
  /\ phase = "run" /\ Divides
  /\ Record
  /\ phase' = "undo" /\ tl' = Length
  /\ Static /\ UNCHANGED <<cur, context, mapped, partial>>

-----------------------------------------------------------------------------
(* execute_undo of the instruction at p, with the value of its trace slot. *)
Undo(p, s) ==
  LET i == code[p] IN
  \/ i.op = "store" /\ UNCHANGED <<reg, values>>
     /\ mem' = [mem EXCEPT ![cur][reg[cur][i.rs]] = values[s]]
  \/ i.op = "beq" /\ UNCHANGED <<reg, mem, values>>
  \/ i.op = "ecall" /\ Write("a0", values[s]) /\ UNCHANGED mem
     /\ values' = [values EXCEPT ![s] = reg[cur]["a0"]]
  \/ i.op \in {"alu", "load", "jal", "divu"} /\ Write(i.rd, values[s])
     /\ UNCHANGED <<mem, values>>

(* A store of another context may be undone where nothing is mapped.       *)
Wild(p) == code[p].op = "store" /\ reg[cur][code[p].rs] \notin mapped[cur]

UndoStep ==
  /\ phase = "undo" /\ tl > 0
  /\ tc' = tc - 1 /\ tl' = tl - 1
  /\ LET p == pcs[Slot(tc')] IN
     \/ ~Wild(p) /\ Undo(p, Slot(tc')) /\ Jump(p) /\ UNCHANGED phase
     \/ Wild(p) /\ phase' = "crashed" /\ UNCHANGED <<context, values>>
  /\ Static /\ UNCHANGED <<cur, mapped, pcs, past, partial>>

RedoStart ==
  /\ phase = "undo" /\ tl = 0
  /\ phase' = "redo"
  /\ tl' = IF Len(past) < MaxTrace THEN Len(past) ELSE MaxTrace
  /\ Static /\ Unrecorded /\ UNCHANGED <<cur, context, mapped, partial>>

(* Mutant of Recall: the call returns what a0 held before it.              *)
RecallOld == Write("a0", reg[cur]["a0"])
Recall == Write("a0", values[Slot(tc)])

(* The instruction is executed again; a system call takes its result from  *)
(* the trace, and an exception leaves the context where it is: all that    *)
(* follow in this replay are the same, never one that clashes (12390).     *)
RedoStep ==
  /\ phase = "redo" /\ tl > 0
  /\ \/ (Faults \/ Divides) /\ UNCHANGED context
     \/ ~Faults /\ ~Divides /\ Now.op # "ecall" /\ Execute
     \/ Now.op = "ecall" /\ Recall /\ Advance /\ UNCHANGED mem
  /\ tc' = tc + 1 /\ tl' = tl - 1
  /\ Static /\ UNCHANGED <<cur, mapped, pcs, values, phase, past, partial>>

(* Replay is over, and with it mipster.                                    *)
Finish ==
  /\ phase = "redo" /\ tl = 0
  /\ phase' = "done"
  /\ Static /\ Unrecorded /\ UNCHANGED <<cur, context, mapped, tl, partial>>

ReplayNext ==
  \/ Step \/ PageFault \/ Call \/ Block \/ SwitchContext \/ DivisionByZero
  \/ UndoStep \/ RedoStart \/ RedoStep \/ Finish

ReplaySpec == ReplayInit /\ [][ReplayNext]_replayVars

-----------------------------------------------------------------------------
ReplayTypeOK ==
  /\ reg \in [Ctx -> [Reg -> Word]] /\ mem \in [Ctx -> [Word -> Word]]
  /\ pc \in [Ctx -> DOMAIN code]
  /\ tc \in 0..MaxTime /\ tl \in 0..MaxTrace
  /\ phase # "run" => Len(past) - MaxTrace <= tc

(* The trace holds instructions of the current context only, and all its   *)
(* calls did was to return a value (12038: "TODO: record all side          *)
(* effects").                                                              *)
Window == {t \in 0..(Len(past) - 1) : t + MaxTrace >= Len(past)}
Undisturbed == \A t \in Window : past[t + 1][1] = cur /\ t \notin partial

(* Replay goes back in time and forth again: after every instruction that  *)
(* was undone, and before every one that is redone, the context is in the  *)
(* state it was in at that point of the trace (12317: "assert: pc ==       *)
(* *(pcs + (tc % MAX_REPLAY_LENGTH))"); replay ends where it started, with *)
(* the division, which changed nothing.                                    *)
Past(t) == IF t < Len(past) THEN past[t + 1] ELSE past[t]
Replays == phase # "run" /\ Undisturbed => phase # "crashed" /\ State(cur) = Past(tc)
=============================================================================
