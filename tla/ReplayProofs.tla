----------------------------- MODULE ReplayProofs -----------------------------
(***************************************************************************)
(* Theorems about the replay engine, for any number of contexts, length of *)
(* the trace and programs.                                                 *)
(***************************************************************************)
EXTENDS Replay, DataLemmas

Line == DOMAIN code
Snapshot == Ctx \X Line \X [Reg -> Word] \X [Word -> Word]

(* The instruction of program p that was recorded in state s, and what it  *)
(* overwrites.                                                             *)
At(p, s) == p[s[2]]

Old(p, s) ==
  LET i == At(p, s) IN
  CASE i.op = "store" -> s[4][s[3][i.rs]]
    [] i.op = "beq"   -> 0
    [] i.op = "ecall" -> s[3]["a0"]
    [] OTHER          -> s[3][i.rd]

(* t is the state after the instruction of s, if that is no division by    *)
(* zero and, if it is a call, it did nothing but return a value.           *)
Wrote(s, t, r, v) == t[3] = [s[3] EXCEPT ![r] = v] /\ t[4] = s[4]
NextLine(p, l)    == (l + 1) % Cardinality(DOMAIN p)
WentOn(p, s, t)   == t[2] = NextLine(p, s[2])

Follows(p, s, t) ==
  LET i == At(p, s) R == s[3] M == s[4] IN
  /\ t[1] = s[1]
  /\ \/ i.op = "alu" /\ Wrote(s, t, i.rd, 1 - R[i.rs]) /\ WentOn(p, s, t)
     \/ i.op = "load" /\ Wrote(s, t, i.rd, M[R[i.rs]]) /\ WentOn(p, s, t)
     \/ i.op = "store" /\ t[3] = R /\ t[4] = [M EXCEPT ![R[i.rs]] = R[i.rd]] /\ WentOn(p, s, t)
     \/ i.op = "beq" /\ t[3] = R /\ t[4] = M
        /\ t[2] = IF R["a0"] = R["t0"] THEN i.to ELSE NextLine(p, s[2])
     \/ i.op = "jal" /\ Wrote(s, t, i.rd, 1) /\ t[2] = i.to
     \/ i.op = "divu" /\ R[i.rs] # 0 /\ Wrote(s, t, i.rd, R[i.rd] \div R[i.rs])
        /\ WentOn(p, s, t)
     \/ i.op = "ecall" /\ Wrote(s, t, "a0", t[3]["a0"]) /\ WentOn(p, s, t)

-----------------------------------------------------------------------------
(* The inductive invariant.                                                *)

Typed ==
  /\ code \in Programs /\ cur \in Ctx
  /\ pc \in [Ctx -> Line] /\ reg \in [Ctx -> [Reg -> Word]] /\ mem \in [Ctx -> [Word -> Word]]
  /\ mapped \in [Ctx -> SUBSET Word]
  /\ pcs \in [0..(MaxTrace - 1) -> Line] /\ values \in [0..(MaxTrace - 1) -> Word]
  /\ phase \in {"run", "undo", "redo", "done", "crashed"}
  /\ tc \in Nat /\ tl \in 0..MaxTrace
  /\ past \in Seq(Snapshot) /\ Len(past) <= MaxTime

(* The first instruction that is still in the trace.                       *)
Base == IF Len(past) < MaxTrace THEN 0 ELSE Len(past) - MaxTrace

Clock ==
  /\ phase = "run" => tc = Len(past)
  /\ phase # "run" => Len(past) > 0 /\ Base <= tc /\ tc <= Len(past)
  /\ phase = "undo" => tl = tc - Base
  /\ phase = "redo" => tl = Len(past) - tc
  /\ phase = "done" => tc = Len(past)

(* The trace holds the last instructions and, until they are undone, what  *)
(* they overwrote.                                                         *)
Traced ==
  \A t \in Window :
    /\ pcs[Slot(t)] = past[t + 1][2]
    /\ phase \in {"run", "undo"} /\ t < tc => values[Slot(t)] = Old(code, past[t + 1])

(* An instruction was recorded in the state the one before it left behind, *)
(* if both are of one context; the last one leads to the present.          *)
Chained ==
  \A t \in 0..(Len(past) - 1) : t \notin partial =>
    /\ t + 1 < Len(past) /\ past[t + 2][1] = past[t + 1][1] =>
         Follows(code, past[t + 1], past[t + 2])
    /\ t + 1 = Len(past) /\ phase = "run" =>
         Follows(code, past[t + 1], State(past[t + 1][1]))

(* Replay starts at a division by zero.                                    *)
Divided ==
  phase # "run" =>
    LET s == past[Len(past)] IN At(code, s).op = "divu" /\ s[3][At(code, s).rs] = 0

(* What a recorded load or store used stays mapped.                        *)
Uses(p, s) == IF At(p, s).op \in {"load", "store"} THEN {s[3][At(p, s).rs]} ELSE {}
Reached == \A t \in 0..(Len(past) - 1) : Uses(code, past[t + 1]) \subseteq mapped[past[t + 1][1]]

(* Undoing a call has left what it returned in the trace.                  *)
Returned ==
  \A t \in Window : (phase = "undo" => t >= tc) /\ At(code, past[t + 1]).op = "ecall" =>
    values[Slot(t)] = past[t + 2][3]["a0"]

Replaying ==
  phase # "run" /\ Undisturbed => phase # "crashed" /\ State(cur) = Past(tc) /\ Returned

ReplayInv == Typed /\ Clock /\ Traced /\ Chained /\ Divided /\ Reached /\ Replaying

-----------------------------------------------------------------------------
(* The circular buffer.                                                    *)

LEMMA SlotRange ==
  ASSUME NEW t \in Nat
  PROVE  Slot(t) \in 0..(MaxTrace - 1)
BY DivMod, ReplayAssumption DEF Slot, ReplayAssumption

LEMMA SlotsDiffer ==
  ASSUME NEW t \in Nat, NEW u \in Nat, t < u, u < t + MaxTrace
  PROVE  Slot(t) # Slot(u)
<1> DEFINE n == MaxTrace
<1> SUFFICES ASSUME Slot(t) = Slot(u) PROVE FALSE
  OBVIOUS
<1>0. n \in Nat \ {0}
  BY ReplayAssumption DEF ReplayAssumption
<1>1. /\ t \div n \in Nat /\ t % n \in Nat /\ t = (t \div n) * n + (t % n)
      /\ u \div n \in Nat /\ u = (u \div n) * n + (u % n) /\ t % n = u % n
  BY <1>0, DivMod DEF Slot
<1> DEFINE x == t \div n
           y == u \div n
<1>2. x * n \in Nat /\ y * n \in Nat
  BY <1>0, <1>1
<1>3. CASE x < y
  <2>1. x * n + n <= y * n
    BY <1>0, <1>1, <1>3, Multiples
  <2> HIDE DEF x, y
  <2> QED
    BY <1>0, <1>1, <1>2, <2>1 DEF x, y
<1>4. CASE y < x
  <2>1. y * n + n <= x * n
    BY <1>0, <1>1, <1>4, Multiples
  <2> QED
    BY <1>0, <1>1, <1>2, <2>1
<1>5. CASE x = y
  BY <1>0, <1>1, <1>5
<1> QED
  BY <1>1, <1>3, <1>4, <1>5

(* Programs.                                                               *)
LEMMA ProgramType ==
  ASSUME Typed
  PROVE  /\ Line = 0 .. (Cardinality(Line) - 1) /\ Cardinality(Line) \in Nat \ {0}
         /\ \A l \in Line : code[l] \in Instruction(Line) /\ After(l) \in Line
<1>1. /\ Cardinality(Line) \in Nat \ {0}
      /\ code \in [0 .. (Cardinality(Line) - 1) -> Instruction(Line)]
  BY ReplayAssumption DEF ReplayAssumption, Typed, Line
<1>2. Line = 0 .. (Cardinality(Line) - 1)
  BY <1>1 DEF Line
<1>3. \A l \in Line : (l + 1) % Cardinality(Line) \in Line
  <2> DEFINE n == Cardinality(Line)
  <2> SUFFICES ASSUME NEW l \in Line PROVE (l + 1) % n \in Line
    OBVIOUS
  <2> HIDE DEF n
  <2>1. l + 1 \in Nat /\ n \in Nat \ {0} /\ Line = 0 .. (n - 1)
    BY <1>1, <1>2 DEF n
  <2>2. (l + 1) % n \in Nat /\ (l + 1) % n < n
    BY <2>1, DivMod
  <2> QED
    BY <2>1, <2>2
<1> QED
  BY <1>1, <1>2, <1>3 DEF After, Line

Tuple(s) == s = <<s[1], s[2], s[3], s[4]>>

LEMMA StateType ==
  ASSUME Typed, NEW c \in Ctx
  PROVE  State(c) \in Snapshot
BY DEF Typed, State, Snapshot

LEMMA SnapshotType ==
  ASSUME NEW s \in Snapshot
  PROVE  /\ Tuple(s) /\ s[1] \in Ctx /\ s[2] \in Line
         /\ s[3] \in [Reg -> Word] /\ s[4] \in [Word -> Word]
BY DEF Snapshot, Tuple

(* What executing an instruction of the current context comes to.          *)
Moved == <<cur, pc'[cur], reg'[cur], mem'[cur]>>

LEMMA InstructionType ==
  ASSUME Typed, NEW l \in Line
  PROVE  /\ code[l].op \in {"alu", "load", "store", "divu"} =>
              code[l].rd \in Reg /\ code[l].rs \in Reg
         /\ code[l].op = "beq" => code[l].to \in Line
         /\ code[l].op = "jal" => code[l].rd \in Reg /\ code[l].to \in Line
         /\ code[l].op \in {"alu", "load", "store", "divu", "beq", "jal", "ecall"}
BY ProgramType DEF Instruction

OthersStay ==
  \A d \in Ctx \ {cur} : pc'[d] = pc[d] /\ reg'[d] = reg[d] /\ mem'[d] = mem[d]

ContextTyped ==
  pc \in [Ctx -> Line] /\ reg \in [Ctx -> [Reg -> Word]] /\ mem \in [Ctx -> [Word -> Word]]

LEMMA Executed ==
  ASSUME Typed, Execute, code' = code
  PROVE  ContextTyped' /\ OthersStay /\ Follows(code, State(cur), Moved)
<1> DEFINE i == code[pc[cur]]
<1>0. /\ ContextTyped /\ cur \in Ctx /\ pc[cur] \in Line /\ Line' = Line
      /\ i.op \in {"alu", "load", "store", "divu"} => i.rd \in Reg /\ i.rs \in Reg
      /\ i.op = "beq" => i.to \in Line
      /\ i.op = "jal" => i.rd \in Reg /\ i.to \in Line
      /\ After(pc[cur]) \in Line /\ After(pc[cur]) = NextLine(code, pc[cur])
      /\ "a0" \in Reg
  BY InstructionType, ProgramType DEF Typed, ContextTyped, Line, After, NextLine, Reg
<1>1. Now = i /\ At(code, State(cur)) = i
  BY DEF Now, At, State
<1> HIDE DEF i
<1> USE <1>0, <1>1 DEF ContextTyped, OthersStay, Follows, Moved, State, Wrote, WentOn, Write,
                       Jump, Advance
<1>2. CASE i.op = "alu" /\ Write(i.rd, 1 - reg[cur][i.rs]) /\ Advance /\ UNCHANGED mem
  <2>1. 1 - reg[cur][i.rs] \in Word
    BY <1>2 DEF Word
  <2> QED
    BY <1>2, <2>1
<1>3. CASE i.op = "load" /\ Write(i.rd, mem[cur][Address]) /\ Advance /\ UNCHANGED mem
  <2>1. Address = reg[cur][i.rs] /\ Address \in Word /\ mem[cur][Address] \in Word
    BY <1>3 DEF Address
  <2> QED
    BY <1>3, <2>1
<1>4. CASE i.op = "store" /\ mem' = [mem EXCEPT ![cur][Address] = reg[cur][i.rd]]
           /\ Advance /\ UNCHANGED reg
  <2>1. Address = reg[cur][i.rs] /\ Address \in Word /\ reg[cur][i.rd] \in Word
    BY <1>4 DEF Address
  <2>2. mem' \in [Ctx -> [Word -> Word]] /\ \A d \in Ctx \ {cur} : mem'[d] = mem[d]
    BY <1>4, <2>1
  <2>3. mem'[cur] = [mem[cur] EXCEPT ![reg[cur][i.rs]] = reg[cur][i.rd]]
    BY <1>4, <2>1
  <2> QED
    BY <1>4, <2>2, <2>3
<1>5. CASE i.op = "beq" /\ UNCHANGED <<reg, mem>>
           /\ IF reg[cur]["a0"] = reg[cur]["t0"] THEN Jump(i.to) ELSE Advance
  BY <1>5
<1>6. CASE i.op = "jal" /\ Write(i.rd, 1) /\ Jump(i.to) /\ UNCHANGED mem
  BY <1>6 DEF Word
<1>7. CASE i.op = "divu" /\ ~Divides
           /\ Write(i.rd, reg[cur][i.rd] \div reg[cur][i.rs]) /\ Advance /\ UNCHANGED mem
  <2>1. reg[cur][i.rs] = 1
    BY <1>7 DEF Divides, Word
  <2>2. reg[cur][i.rd] \div 1 = reg[cur][i.rd] /\ reg[cur][i.rd] \in Word
    BY <1>7 DEF Word
  <2>3. reg' = [reg EXCEPT ![cur][i.rd] = reg[cur][i.rd]]
    BY <1>7, <2>1, <2>2
  <2>4. /\ reg' \in [Ctx -> [Reg -> Word]] /\ \A d \in Ctx \ {cur} : reg'[d] = reg[d]
        /\ reg'[cur] = [reg[cur] EXCEPT ![i.rd] = reg[cur][i.rd] \div reg[cur][i.rs]]
    BY <1>7, <2>1, <2>2, <2>3
  <2>5. pc' \in [Ctx -> Line] /\ OthersStay /\ ContextTyped'
    BY <1>7, <2>4
  <2>6. Wrote(State(cur), Moved, i.rd, reg[cur][i.rd] \div reg[cur][i.rs]) /\ WentOn(code, State(cur), Moved)
    BY <1>7, <2>4
  <2>7. Follows(code, State(cur), Moved)
    <3>1. State(cur)[3] = reg[cur] /\ Moved[1] = State(cur)[1]
      OBVIOUS
    <3>2. i.op = "divu" /\ reg[cur][i.rs] # 0
      BY <1>7, <2>1
    <3> HIDE DEF Wrote, WentOn, Moved, State, ContextTyped, OthersStay
    <3> QED
      BY <2>6, <3>1, <3>2
  <2> QED
    BY <2>5, <2>7
<1> QED
  BY <1>2, <1>3, <1>4, <1>5, <1>6, <1>7 DEF Execute

(* An instruction that is no call has one outcome.                         *)
LEMMA OneOutcome ==
  ASSUME NEW p, NEW s, NEW t, NEW u, Follows(p, s, t), Follows(p, s, u), Tuple(t), Tuple(u),
         At(p, s).op # "ecall"
  PROVE  t = u
BY DEF Follows, Wrote, WentOn, Tuple

(* Undoing an instruction in the state it led to, with what it overwrote.  *)
LEMMA Undone ==
  ASSUME Typed, NEW s \in Snapshot, Follows(code, s, State(cur)), NEW k,
         values[k] = Old(code, s), Undo(s[2], k), Jump(s[2]), code' = code
  PROVE  Moved = s /\ ContextTyped'
<1> DEFINE i == At(code, s)
<1>0. /\ ContextTyped /\ cur \in Ctx /\ Tuple(s)
      /\ s[2] \in Line /\ s[3] \in [Reg -> Word] /\ s[4] \in [Word -> Word]
      /\ i.op \in {"alu", "load", "store", "divu"} => i.rd \in Reg /\ i.rs \in Reg
      /\ i.op = "jal" => i.rd \in Reg
      /\ "a0" \in Reg
  BY SnapshotType, InstructionType DEF Typed, ContextTyped, At, Reg
<1>1. i = code[s[2]]
  BY DEF At
<1>2. s[1] = cur /\ State(cur) = <<cur, pc[cur], reg[cur], mem[cur]>>
  BY DEF State, Follows
<1>3. /\ pc' = [pc EXCEPT ![cur] = s[2]] /\ pc' \in [Ctx -> Line] /\ pc'[cur] = s[2]
  BY <1>0 DEF Jump, ContextTyped
<1> USE DEF Line
<1> HIDE DEF i
<1>4. ASSUME NEW r \in Reg, NEW v, reg[cur] = [s[3] EXCEPT ![r] = v], mem[cur] = s[4],
             Write(r, s[3][r]), UNCHANGED mem
      PROVE  /\ mem'[cur] = s[4] /\ reg'[cur] = s[3]
             /\ mem' \in [Ctx -> [Word -> Word]] /\ reg' \in [Ctx -> [Reg -> Word]]
  BY <1>0, <1>4 DEF Write, ContextTyped
<1>5. CASE i.op = "store"
  <2>1. /\ reg[cur] = s[3] /\ mem[cur] = [s[4] EXCEPT ![s[3][i.rs]] = s[3][i.rd]]
        /\ values[k] = s[4][s[3][i.rs]]
    BY <1>2, <1>5 DEF Follows, Old, i
  <2>2. mem' = [mem EXCEPT ![cur][reg[cur][i.rs]] = values[k]] /\ UNCHANGED reg
    BY <1>1, <1>5 DEF Undo
  <2>3. s[3][i.rs] \in Word
    BY <1>0, <1>5
  <2>4. mem'[cur] = s[4] /\ mem' \in [Ctx -> [Word -> Word]]
    BY <1>0, <2>1, <2>2, <2>3 DEF ContextTyped
  <2> QED
    BY <1>0, <1>2, <1>3, <2>1, <2>2, <2>4 DEF Moved, ContextTyped, Tuple
<1>6. CASE i.op = "beq"
  <2>1. reg[cur] = s[3] /\ mem[cur] = s[4] /\ UNCHANGED <<reg, mem>>
    BY <1>1, <1>2, <1>6 DEF Follows, Undo, i
  <2> QED
    BY <1>0, <1>2, <1>3, <2>1 DEF Moved, ContextTyped, Tuple
<1>7. CASE i.op = "ecall"
  <2>0. PICK v : Wrote(s, State(cur), "a0", v)
    BY <1>7 DEF Follows, i
  <2>1. /\ reg[cur] = [s[3] EXCEPT !["a0"] = v] /\ mem[cur] = s[4]
        /\ values[k] = s[3]["a0"]
    <3>1. reg[cur] = [s[3] EXCEPT !["a0"] = v] /\ mem[cur] = s[4]
      BY <1>2, <2>0 DEF Wrote
    <3>2. values[k] = s[3]["a0"]
      BY <1>7 DEF Old, i
    <3> QED
      BY <3>1, <3>2
  <2>2. Write("a0", values[k]) /\ UNCHANGED mem
    BY <1>1, <1>7 DEF Undo
  <2>3. /\ mem'[cur] = s[4] /\ reg'[cur] = s[3]
        /\ mem' \in [Ctx -> [Word -> Word]] /\ reg' \in [Ctx -> [Reg -> Word]]
    BY <1>0, <1>4, <2>1, <2>2
  <2> QED
    BY <1>0, <1>2, <1>3, <2>3 DEF Moved, ContextTyped, Tuple
<1>8. CASE i.op \in {"alu", "load", "jal", "divu"}
  <2>0. PICK v : Wrote(s, State(cur), i.rd, v)
    BY <1>8 DEF Follows, i
  <2>1. /\ reg[cur] = [s[3] EXCEPT ![i.rd] = v] /\ mem[cur] = s[4]
        /\ values[k] = s[3][i.rd] /\ i.rd \in Reg
    <3>1. reg[cur] = [s[3] EXCEPT ![i.rd] = v] /\ mem[cur] = s[4]
      BY <1>2, <2>0 DEF Wrote
    <3>2. values[k] = s[3][i.rd]
      BY <1>8 DEF Old, i
    <3> QED
      BY <1>0, <1>8, <3>1, <3>2
  <2>2. Write(i.rd, values[k]) /\ UNCHANGED mem
    BY <1>1, <1>8 DEF Undo
  <2>3. /\ mem'[cur] = s[4] /\ reg'[cur] = s[3]
        /\ mem' \in [Ctx -> [Word -> Word]] /\ reg' \in [Ctx -> [Reg -> Word]]
    BY <1>0, <1>4, <2>1, <2>2
  <2> QED
    BY <1>0, <1>2, <1>3, <2>3 DEF Moved, ContextTyped, Tuple
<1> QED
  BY <1>5, <1>6, <1>7, <1>8 DEF Follows, i

-----------------------------------------------------------------------------
(* Recording.                                                              *)

LEMMA OverwrittenOld ==
  ASSUME Typed
  PROVE  Overwritten = Old(code, State(cur)) /\ Overwritten \in Word
<1>0. /\ pc[cur] \in Line /\ reg[cur] \in [Reg -> Word] /\ mem[cur] \in [Word -> Word]
      /\ "a0" \in Reg /\ 0 \in Word
  BY DEF Typed, Reg, Word
<1> DEFINE i == code[pc[cur]]
<1>1. /\ Now = i /\ At(code, State(cur)) = i /\ Address = reg[cur][Now.rs]
      /\ State(cur)[3] = reg[cur] /\ State(cur)[4] = mem[cur]
  BY DEF Now, At, State, Address
<1>2. /\ i.op \in {"alu", "load", "store", "divu"} => i.rd \in Reg /\ i.rs \in Reg
      /\ i.op = "jal" => i.rd \in Reg
      /\ i.op \in {"alu", "load", "store", "divu", "beq", "jal", "ecall"}
  BY <1>0, InstructionType
<1> HIDE DEF i
<1>3. Overwritten = Old(code, State(cur))
  BY <1>1 DEF Overwritten, Old
<1>4. CASE i.op = "store"
  <2>1. mem[cur][reg[cur][i.rs]] \in Word
    BY <1>0, <1>2, <1>4
  <2>2. Old(code, State(cur)) = mem[cur][reg[cur][i.rs]]
    BY <1>1, <1>4 DEF Old
  <2> QED
    BY <1>3, <2>1, <2>2
<1>5. CASE i.op \in {"beq", "ecall"}
  <2>1. Old(code, State(cur)) \in {0, reg[cur]["a0"]}
    BY <1>1, <1>5 DEF Old
  <2> QED
    BY <1>0, <1>3, <2>1
<1>6. CASE i.op \in {"alu", "load", "divu", "jal"}
  <2>1. Old(code, State(cur)) = reg[cur][i.rd]
    BY <1>1, <1>6 DEF Old
  <2> QED
    BY <1>0, <1>2, <1>3, <1>6, <2>1
<1> QED
  BY <1>2, <1>4, <1>5, <1>6

(* The trace one instruction longer: a new state at the end of the past,   *)
(* and no slot of the window lost but the one that left it.                *)
Longer ==
  /\ past' \in Seq(Snapshot) /\ Len(past') = Len(past) + 1 /\ Len(past') <= MaxTime
  /\ \A t \in 0..(Len(past) - 1) : past'[t + 1] = past[t + 1]
  /\ past'[Len(past) + 1] = State(cur)
  /\ tc = Len(past) /\ tc' = tc + 1
  /\ pcs' \in [0..(MaxTrace - 1) -> Line] /\ values' \in [0..(MaxTrace - 1) -> Word]
  /\ pcs'[Slot(tc)] = pc[cur] /\ values'[Slot(tc)] = Old(code, State(cur))
  /\ \A t \in Window' : t = tc \/
       (t \in Window /\ pcs'[Slot(t)] = pcs[Slot(t)] /\ values'[Slot(t)] = values[Slot(t)])

LEMMA RecordLonger ==
  ASSUME Typed, phase = "run", tc = Len(past), Record
  PROVE  Longer
<1>0. /\ past \in Seq(Snapshot) /\ State(cur) \in Snapshot /\ tc \in Nat /\ MaxTime \in Nat
      /\ Slot(tc) \in 0..(MaxTrace - 1) /\ pc[cur] \in Line /\ MaxTrace \in Nat \ {0}
      /\ pcs \in [0..(MaxTrace - 1) -> Line] /\ values \in [0..(MaxTrace - 1) -> Word]
  BY StateType, SlotRange, ReplayAssumption DEF ReplayAssumption, Typed
<1>1. /\ past' = Append(past, State(cur)) /\ tc < MaxTime /\ tc' = tc + 1
      /\ pcs' = [pcs EXCEPT ![Slot(tc)] = pc[cur]]
      /\ values' = [values EXCEPT ![Slot(tc)] = Overwritten]
  BY DEF Record
<1>2. Overwritten = Old(code, State(cur)) /\ Overwritten \in Word
  BY OverwrittenOld
<1>3. /\ past' \in Seq(Snapshot) /\ Len(past') = Len(past) + 1
      /\ \A t \in 1..Len(past) : past'[t] = past[t]
      /\ past'[Len(past) + 1] = State(cur)
  BY <1>0, <1>1
<1>4. ASSUME NEW t \in Window', t # tc
      PROVE  t \in Window /\ pcs'[Slot(t)] = pcs[Slot(t)] /\ values'[Slot(t)] = values[Slot(t)]
  <2>1. t \in Nat /\ t < tc /\ tc < t + MaxTrace /\ t \in Window
    BY <1>0, <1>3, <1>4 DEF Window
  <2>2. Slot(t) # Slot(tc) /\ Slot(t) \in 0..(MaxTrace - 1)
    BY <1>0, <2>1, SlotsDiffer, SlotRange
  <2> QED
    BY <1>0, <1>1, <2>1, <2>2
<1> HIDE DEF Window
<1>5. /\ pcs' \in [0..(MaxTrace - 1) -> Line] /\ values' \in [0..(MaxTrace - 1) -> Word]
      /\ pcs'[Slot(tc)] = pc[cur] /\ values'[Slot(tc)] = Old(code, State(cur))
  BY <1>0, <1>1, <1>2
<1>6. \A t \in 0..(Len(past) - 1) : past'[t + 1] = past[t + 1]
  BY <1>0, <1>3
<1> QED
  BY <1>0, <1>1, <1>3, <1>4, <1>5, <1>6 DEF Longer

(* What an instruction that is recorded has to do for the invariant.       *)
LEMMA RecordedStep ==
  ASSUME ReplayInv, phase = "run", phase' \in {"run", "undo"}, Record, UNCHANGED <<code, mapped>>,
         cur' \in Ctx, ContextTyped', OthersStay, tl' \in 0..MaxTrace,
         Uses(code, State(cur)) \subseteq mapped[cur], partial \subseteq partial',
         tc \in partial' \/ phase' # "run" \/ Follows(code, State(cur), Moved)
  PROVE  Typed' /\ Traced' /\ Chained' /\ Reached' /\ Longer
<1>0. /\ Typed /\ Longer /\ tc = Len(past) /\ cur \in Ctx /\ Len(past) \in Nat
      /\ past \in Seq(Snapshot)
  BY RecordLonger DEF ReplayInv, Clock, Typed
<1>1. Typed'
  BY <1>0 DEF Typed, Longer, ContextTyped, Line, Snapshot
<1>2. State(cur)[1] = cur /\ State(cur)[2] = pc[cur]
  BY DEF State
<1>3. Traced'
  <2> SUFFICES ASSUME NEW t \in Window'
               PROVE  /\ pcs'[Slot(t)] = past'[t + 1][2]
                      /\ values'[Slot(t)] = Old(code, past'[t + 1])
    BY DEF Traced, Slot
  <2>1. CASE t = tc
    BY <1>0, <1>2, <2>1 DEF Longer
  <2>2. CASE t # tc
    <3>1. /\ t \in Window /\ pcs'[Slot(t)] = pcs[Slot(t)] /\ values'[Slot(t)] = values[Slot(t)]
      BY <1>0, <2>2 DEF Longer
    <3>2. t \in 0..(Len(past) - 1)
      BY <3>1 DEF Window
    <3>3. past'[t + 1] = past[t + 1] /\ t < tc
      BY <1>0, <3>2 DEF Longer
    <3> QED
      BY <3>1, <3>2, <3>3 DEF ReplayInv, Traced
  <2> QED
    BY <2>1, <2>2
<1>4. Chained'
  <2> SUFFICES ASSUME NEW t \in 0..(Len(past') - 1), t \notin partial'
               PROVE  /\ t + 1 < Len(past') /\ past'[t + 2][1] = past'[t + 1][1] =>
                           Follows(code, past'[t + 1], past'[t + 2])
                      /\ t + 1 = Len(past') /\ phase' = "run" =>
                           LET c == past'[t + 1][1] IN
                           Follows(code, past'[t + 1], <<c, pc'[c], reg'[c], mem'[c]>>)
    BY DEF Chained, State
  <2>0. t \in 0..Len(past) /\ Len(past') = Len(past) + 1
    BY <1>0 DEF Longer
  <2>1. ASSUME t + 1 < Len(past)
        PROVE  t \in 0..(Len(past) - 1) /\ past'[t + 1] = past[t + 1] /\ past'[t + 2] = past[t + 2]
    <3>1. t \in 0..(Len(past) - 1) /\ t + 1 \in 0..(Len(past) - 1) /\ (t + 1) + 1 = t + 2
      BY <2>0, <2>1, <1>0
    <3> QED
      BY <1>0, <3>1 DEF Longer
  <2>2. CASE t + 1 < Len(past)
    BY <2>0, <2>1, <2>2 DEF ReplayInv, Chained
  <2>3. CASE t + 1 = Len(past)
    <3>1. /\ t \in 0..(Len(past) - 1) /\ t + 2 = Len(past) + 1
          /\ past'[t + 1] = past[t + 1] /\ past'[t + 2] = State(cur)
      BY <1>0, <2>0, <2>3 DEF Longer
    <3>2. Follows(code, past[t + 1], State(past[t + 1][1]))
      BY <2>3, <3>1 DEF ReplayInv, Chained
    <3> QED
      BY <1>0, <1>2, <2>0, <2>3, <3>1, <3>2
  <2>4. CASE t = Len(past)
    <3>1. past'[t + 1] = State(cur)
      BY <1>0, <2>4 DEF Longer
    <3> QED
      BY <1>0, <1>2, <2>0, <2>4, <3>1 DEF Moved
  <2> QED
    BY <1>0, <2>0, <2>2, <2>3, <2>4
<1>5. Reached'
  <2> SUFFICES ASSUME NEW t \in 0..(Len(past') - 1)
               PROVE  Uses(code, past'[t + 1]) \subseteq mapped[past'[t + 1][1]]
    BY DEF Reached
  <2>1. CASE t = Len(past)
    BY <1>0, <1>2, <2>1 DEF Longer
  <2>2. CASE t # Len(past)
    <3>1. t \in 0..(Len(past) - 1) /\ past'[t + 1] = past[t + 1]
      BY <1>0, <2>2 DEF Longer
    <3> QED
      BY <3>1 DEF ReplayInv, Reached
  <2> QED
    BY <2>1, <2>2
<1> QED
  BY <1>0, <1>1, <1>3, <1>4, <1>5

LEMMA NoFaultReached ==
  ASSUME ~Faults
  PROVE  Uses(code, State(cur)) \subseteq mapped[cur]
BY DEF Faults, Uses, At, State, Now, Address

(* A step of the machine that records nothing.                             *)
LEMMA UnrecordedStep ==
  ASSUME ReplayInv, phase = "run", Unrecorded, UNCHANGED <<code, context, phase, tl, partial>>,
         cur' \in Ctx, mapped' \in [Ctx -> SUBSET Word], \A c \in Ctx : mapped[c] \subseteq mapped'[c]
  PROVE  ReplayInv'
<1> USE DEF Unrecorded, context
<1>1. Typed' /\ Clock' /\ Divided' /\ Replaying'
  BY DEF ReplayInv, Typed, Line, Snapshot, Clock, Divided, Replaying
<1>2. Traced'
  BY DEF ReplayInv, Traced, Window, Slot
<1>3. Chained'
  BY DEF ReplayInv, Chained, State
<1>4. Reached'
  <2>1. ASSUME NEW t \in 0..(Len(past) - 1)
        PROVE  Uses(code, past[t + 1]) \subseteq mapped'[past[t + 1][1]]
    <3>1. past \in Seq(Snapshot) /\ t + 1 \in 1..Len(past)
      BY DEF ReplayInv, Typed
    <3>2. past[t + 1][1] \in Ctx
      BY <3>1, SnapshotType
    <3> QED
      BY <3>2 DEF ReplayInv, Reached
  <2> QED
    BY <2>1 DEF Reached
<1> QED
  BY <1>1, <1>2, <1>3, <1>4 DEF ReplayInv

LEMMA RunStep ==
  ASSUME ReplayInv, Step \/ PageFault \/ Call \/ Block \/ SwitchContext
  PROVE  ReplayInv'
<1>0. /\ Typed /\ ContextTyped /\ cur \in Ctx /\ phase = "run" /\ tc = Len(past)
      /\ tl \in 0..MaxTrace /\ tc \in Nat /\ mapped \in [Ctx -> SUBSET Word]
      /\ pc[cur] \in Line
  BY DEF ReplayInv, Typed, ContextTyped, Clock, Step, PageFault, Call, Block, SwitchContext
<1>1. ASSUME Typed', Traced', Chained', Reached', Longer, phase' = "run"
      PROVE  ReplayInv'
  BY <1>0, <1>1 DEF ReplayInv, Longer, Clock, Divided, Replaying
<1>2. CASE Step
  <2>1. /\ Record /\ Execute /\ UNCHANGED <<code, gc, cur, mapped, phase, tl, partial>>
        /\ Uses(code, State(cur)) \subseteq mapped[cur]
    BY <1>2, NoFaultReached DEF Step, Static
  <2>2. ContextTyped' /\ OthersStay /\ Follows(code, State(cur), Moved)
    BY <1>0, <2>1, Executed
  <2> QED
    BY <1>0, <1>1, <2>1, <2>2, RecordedStep
<1>3. CASE PageFault
  <2>1. cur' = cur /\ mapped' = [mapped EXCEPT ![cur] = @ \cup {Address}] /\ Address \in Word
    <3>1. code[pc[cur]].rs \in Reg
      BY <1>0, <1>3, InstructionType DEF PageFault, Faults, Now
    <3> QED
      BY <1>0, <1>3, <3>1 DEF PageFault, Address, Now, ContextTyped
  <2>2. mapped' \in [Ctx -> SUBSET Word] /\ \A c \in Ctx : mapped[c] \subseteq mapped'[c]
    BY <1>0, <2>1
  <2> QED
    BY <1>0, <1>3, <2>1, <2>2, UnrecordedStep DEF PageFault, Static
<1>4. CASE Call
  <2>1. /\ Now.op = "ecall" /\ Record /\ UNCHANGED <<code, gc, cur, mapped, phase, tl>>
        /\ \E v \in Word : Write("a0", v)
    BY <1>4 DEF Call, Static
  <2>2. PICK v \in Word : Write("a0", v)
    BY <2>1
  <2>3. /\ reg' \in [Ctx -> [Reg -> Word]] /\ \A d \in Ctx \ {cur} : reg'[d] = reg[d]
        /\ reg'[cur] = [reg[cur] EXCEPT !["a0"] = v] /\ reg'[cur]["a0"] = v
    BY <1>0, <2>2 DEF Write, ContextTyped, Reg
  <2>4. Uses(code, State(cur)) \subseteq mapped[cur]
    BY <2>1, NoFaultReached DEF Faults
  <2>5. After(pc[cur]) \in Line /\ After(After(pc[cur])) \in Line /\ Line' = Line
    BY <1>0, <2>1, ProgramType DEF Line
  <2>6. pc' \in [Ctx -> Line] /\ \A d \in Ctx \ {cur} : pc'[d] = pc[d]
    BY <1>0, <1>4, <2>5 DEF Call, Jump, Advance, ContextTyped
  <2>7. mem' \in [Ctx -> [Word -> Word]] /\ \A d \in Ctx \ {cur} : mem'[d] = mem[d]
    <3>1. CASE UNCHANGED mem
      BY <1>0, <3>1 DEF ContextTyped
    <3>2. CASE \E w \in mapped[cur], u \in Word : mem' = [mem EXCEPT ![cur][w] = u]
      <4>1. PICK w \in mapped[cur], u \in Word : mem' = [mem EXCEPT ![cur][w] = u]
        BY <3>2
      <4>2. w \in Word
        BY <1>0
      <4> QED
        BY <1>0, <4>1, <4>2 DEF ContextTyped
    <3> QED
      BY <1>4, <3>1, <3>2 DEF Call
  <2>8. ContextTyped' /\ OthersStay
    BY <2>3, <2>5, <2>6, <2>7 DEF ContextTyped, OthersStay
  <2>9. partial \subseteq partial' /\ (tc \in partial' \/ (Advance /\ UNCHANGED mem))
    BY <1>4 DEF Call
  <2>10. ASSUME Advance, UNCHANGED mem
         PROVE  Follows(code, State(cur), Moved)
    <3>1. pc'[cur] = NextLine(code, pc[cur])
      BY <1>0, <2>10 DEF Advance, Jump, After, NextLine, ContextTyped
    <3> QED
      BY <2>1, <2>3, <2>10, <3>1 DEF Follows, At, State, Moved, Wrote, WentOn, Now
  <2> QED
    BY <1>0, <1>1, <2>1, <2>4, <2>8, <2>9, <2>10, RecordedStep
<1>5. CASE Block
  <2>1. /\ Record /\ UNCHANGED <<code, gc, pc, reg, mem, mapped, phase, tl>> /\ cur' \in Ctx
        /\ partial' = partial \cup {tc} /\ Uses(code, State(cur)) \subseteq mapped[cur]
    BY <1>5, NoFaultReached DEF Block, Static, context, Faults
  <2>2. ContextTyped' /\ OthersStay
    BY <1>0, <2>1 DEF ContextTyped, OthersStay, Line
  <2> QED
    BY <1>0, <1>1, <2>1, <2>2, RecordedStep
<1>6. CASE SwitchContext
  BY <1>0, <1>6, UnrecordedStep DEF SwitchContext, Static
<1> QED
  BY <1>2, <1>3, <1>4, <1>5, <1>6

(* The division is recorded, and the present is the last state of the past.*)
LEMMA DivisionStep ==
  ASSUME ReplayInv, DivisionByZero
  PROVE  ReplayInv'
<1>0. /\ Typed /\ cur \in Ctx /\ phase = "run" /\ tc = Len(past) /\ tc \in Nat
      /\ MaxTrace \in Nat \ {0} /\ Line' = Line
  BY ReplayAssumption
     DEF ReplayAssumption, ReplayInv, Typed, Clock, DivisionByZero, Static, Line
<1>1. /\ Divides /\ Record /\ UNCHANGED <<code, gc, cur, pc, reg, mem, mapped, partial>>
      /\ phase' = "undo" /\ tl' = Length
  BY DEF DivisionByZero, Static, context
<1>2. ContextTyped' /\ OthersStay /\ tl' \in 0..MaxTrace
  BY <1>0, <1>1 DEF Typed, ContextTyped, OthersStay, Length
<1>3. Uses(code, State(cur)) \subseteq mapped[cur]
  BY <1>1 DEF Divides, Uses, At, State, Now
<1>4. Typed' /\ Traced' /\ Chained' /\ Reached' /\ Longer
  BY <1>0, <1>1, <1>2, <1>3, RecordedStep
<1>5. Len(past') = tc + 1 /\ tc' = tc + 1 /\ past'[Len(past')] = State(cur)
  BY <1>0, <1>4 DEF Longer
<1>6. Clock'
  BY <1>0, <1>1, <1>5 DEF Clock, Base, Length
<1>7. Divided'
  BY <1>1, <1>5 DEF Divided, Divides, At, State, Now
<1>8. Replaying'
  <2>1. Past(tc)' = State(cur) /\ State(cur)' = State(cur)
    BY <1>0, <1>1, <1>5 DEF Past, State
  <2>2. Returned'
    BY <1>0, <1>1, <1>5 DEF Returned, Window
  <2> QED
    BY <1>1, <2>1, <2>2 DEF Replaying
<1> QED
  BY <1>4, <1>6, <1>7, <1>8 DEF ReplayInv

-----------------------------------------------------------------------------
(* Replaying, which changes neither the past nor what is mapped.           *)
Frozen == UNCHANGED <<code, cur, mapped, pcs, past, partial>>

LEMMA FrozenStep ==
  ASSUME ReplayInv, phase # "run", phase' # "run", Frozen,
         phase' = "undo" => phase = "undo" /\ tc' <= tc /\ tc' \in Nat
                            /\ \A t \in Window : t < tc' => values'[Slot(t)] = values[Slot(t)]
  PROVE  Traced' /\ Chained' /\ Divided' /\ Reached'
<1> USE DEF Frozen
<1>1. Traced'
  <2>1. Window' = Window /\ Window \subseteq Nat
    BY DEF Window
  <2>2. tc \in Nat
    BY DEF ReplayInv, Typed
  <2>3. ASSUME NEW t \in Window
        PROVE  /\ pcs[Slot(t)] = past[t + 1][2]
               /\ phase' \in {"run", "undo"} /\ t < tc' => values'[Slot(t)] = Old(code, past[t + 1])
    <3>1. phase' = "undo" /\ t < tc' => t < tc
      BY <2>1, <2>2
    <3> QED
      BY <3>1 DEF ReplayInv, Traced
  <2> QED
    BY <2>1, <2>3 DEF Traced, Slot
<1>2. Chained' /\ Divided' /\ Reached'
  BY DEF ReplayInv, Chained, Divided, Reached
<1> QED
  BY <1>1, <1>2

(* Where replay is, and what the trace says of it if it is undisturbed.    *)
LEMMA Position ==
  ASSUME ReplayInv, NEW t \in Nat, Base <= t, t < Len(past)
  PROVE  /\ t \in Window /\ past[t + 1] \in Snapshot
         /\ pcs[Slot(t)] = past[t + 1][2] /\ past[t + 1][2] \in Line
         /\ Undisturbed => past[t + 1][1] = cur /\ t \notin partial
         /\ Undisturbed => Uses(code, past[t + 1]) \subseteq mapped[cur]
         /\ t + 1 < Len(past) => past[t + 2] \in Snapshot
         /\ Undisturbed /\ t + 1 < Len(past) => Follows(code, past[t + 1], past[t + 2])
<1>0. MaxTrace \in Nat /\ past \in Seq(Snapshot) /\ Len(past) \in Nat
  BY ReplayAssumption DEF ReplayAssumption, ReplayInv, Typed
<1>1. t \in Window /\ t \in 0..(Len(past) - 1)
  BY <1>0 DEF Window, Base
<1>2. past[t + 1] \in Snapshot /\ past[t + 1][2] \in Line /\ (t + 1 < Len(past) => past[t + 2] \in Snapshot)
  <2>1. past[t + 1] \in Snapshot /\ (t + 1 < Len(past) => past[t + 2] \in Snapshot)
    BY <1>0
  <2> QED
    BY <2>1, SnapshotType
<1>3. pcs[Slot(t)] = past[t + 1][2]
  BY <1>1 DEF ReplayInv, Traced
<1>4. Undisturbed => past[t + 1][1] = cur /\ t \notin partial
  BY <1>1 DEF Undisturbed
<1>5. Undisturbed => Uses(code, past[t + 1]) \subseteq mapped[cur]
  BY <1>1, <1>4 DEF ReplayInv, Reached
<1>6. ASSUME Undisturbed, t + 1 < Len(past)
      PROVE  Follows(code, past[t + 1], past[t + 2])
  <2>1. t + 1 \in Window /\ (t + 1) + 1 = t + 2
    BY <1>0, <1>1, <1>6 DEF Window
  <2>2. past[t + 2][1] = cur
    BY <1>6, <2>1 DEF Undisturbed
  <2> QED
    BY <1>1, <1>4, <1>6, <2>2 DEF ReplayInv, Chained
<1> QED
  BY <1>1, <1>2, <1>3, <1>4, <1>5, <1>6

LEMMA UndoTyped ==
  ASSUME Typed, NEW p \in Line, NEW k \in 0..(MaxTrace - 1), Undo(p, k), Jump(p), code' = code
  PROVE  /\ ContextTyped' /\ values' \in [0..(MaxTrace - 1) -> Word]
         /\ \A j \in 0..(MaxTrace - 1) : j # k => values'[j] = values[j]
         /\ code[p].op = "ecall" => values'[k] = reg[cur]["a0"]
<1> DEFINE i == code[p]
<1>0. /\ cur \in Ctx /\ pc \in [Ctx -> Line] /\ reg \in [Ctx -> [Reg -> Word]]
      /\ mem \in [Ctx -> [Word -> Word]] /\ values \in [0..(MaxTrace - 1) -> Word]
      /\ "a0" \in Reg /\ Line' = Line
  BY DEF Typed, Reg, Line
<1>1. /\ i.op \in {"alu", "load", "store", "divu"} => i.rd \in Reg /\ i.rs \in Reg
      /\ i.op = "jal" => i.rd \in Reg
  BY InstructionType
<1>2. pc' \in [Ctx -> Line]
  BY <1>0 DEF Jump
<1>3. reg' \in [Ctx -> [Reg -> Word]] /\ mem' \in [Ctx -> [Word -> Word]]
  <2>1. CASE i.op = "store"
    <3>1. reg[cur][i.rs] \in Word /\ values[k] \in Word
      BY <1>0, <1>1, <2>1
    <3>2. UNCHANGED reg /\ mem' = [mem EXCEPT ![cur][reg[cur][i.rs]] = values[k]]
      BY <2>1 DEF Undo
    <3> QED
      BY <1>0, <3>1, <3>2
  <2>2. CASE i.op = "beq"
    BY <1>0, <2>2 DEF Undo
  <2>3. CASE i.op \in {"ecall", "alu", "load", "jal", "divu"}
    <3>1. PICK r \in Reg : Write(r, values[k]) /\ UNCHANGED mem
      BY <1>0, <1>1, <2>3 DEF Undo
    <3>2. values[k] \in Word
      BY <1>0
    <3> QED
      BY <1>0, <3>1, <3>2 DEF Write
  <2> QED
    BY <2>1, <2>2, <2>3 DEF Undo
<1>4. \/ values' = values /\ i.op # "ecall"
      \/ values' = [values EXCEPT ![k] = reg[cur]["a0"]]
  BY DEF Undo
<1>5. reg[cur]["a0"] \in Word
  BY <1>0
<1> QED
  BY <1>0, <1>2, <1>3, <1>4, <1>5 DEF ContextTyped

(* Undoing the division that changed nothing.                              *)
LEMMA DivisionUndone ==
  ASSUME Typed, At(code, State(cur)).op = "divu", NEW k,
         values[k] = Old(code, State(cur)), Undo(pc[cur], k), Jump(pc[cur])
  PROVE  Moved = State(cur)
<1> DEFINE i == code[pc[cur]]
<1>0. /\ cur \in Ctx /\ pc \in [Ctx -> Line] /\ reg \in [Ctx -> [Reg -> Word]] /\ pc[cur] \in Line
  BY DEF Typed
<1>1. At(code, State(cur)) = i /\ i.op = "divu" /\ State(cur)[3] = reg[cur]
  BY DEF At, State
<1>2. i.rd \in Reg
  BY <1>0, <1>1, InstructionType
<1>3. values[k] = reg[cur][i.rd]
  BY <1>1 DEF Old
<1>4. reg' = [reg EXCEPT ![cur][i.rd] = reg[cur][i.rd]] /\ mem' = mem
  BY <1>1, <1>3 DEF Undo, Write
<1>5. reg'[cur] = reg[cur] /\ pc'[cur] = pc[cur]
  BY <1>0, <1>2, <1>4 DEF Jump
<1> QED
  BY <1>4, <1>5 DEF Moved, State

LEMMA UndoingStep ==
  ASSUME ReplayInv, UndoStep
  PROVE  ReplayInv'
<1> DEFINE n == tc - 1
           s == past[n + 1]
<1>0. /\ Typed /\ Clock /\ cur \in Ctx /\ phase = "undo" /\ MaxTrace \in Nat \ {0}
      /\ tc' = n /\ tl' = tl - 1 /\ Frozen /\ UNCHANGED gc
      /\ tl \in 0..MaxTrace /\ tl > 0 /\ Len(past) \in Nat /\ tc \in Nat
  BY ReplayAssumption
     DEF ReplayAssumption, ReplayInv, Typed, UndoStep, Static, Frozen
<1>1. /\ n \in Nat /\ Base \in Nat /\ Base <= n /\ n < Len(past) /\ tc <= Len(past)
      /\ Base' = Base /\ Line' = Line
  BY <1>0 DEF Clock, Base, Frozen, Line
<1>2. /\ n \in Window /\ s \in Snapshot /\ pcs[Slot(n)] = s[2] /\ s[2] \in Line
      /\ Slot(n) \in 0..(MaxTrace - 1)
      /\ values[Slot(n)] = Old(code, s)
  <2>1. n \in Window /\ s \in Snapshot /\ pcs[Slot(n)] = s[2] /\ s[2] \in Line
        /\ Slot(n) \in 0..(MaxTrace - 1)
    BY <1>1, Position, SlotRange
  <2>2. values[Slot(n)] = Old(code, s)
    BY <1>0, <1>1, <2>1 DEF ReplayInv, Traced
  <2> QED
    BY <2>1, <2>2
<1>3. pcs[Slot(tc')] = s[2] /\ Slot(tc') = Slot(n)
  BY <1>0, <1>2
<1> HIDE DEF s
<1>4. \/ ~Wild(s[2]) /\ Undo(s[2], Slot(n)) /\ Jump(s[2]) /\ phase' = "undo"
      \/ Wild(s[2]) /\ phase' = "crashed" /\ UNCHANGED <<pc, reg, mem, values>>
  BY <1>0, <1>3 DEF UndoStep, context
<1>5. /\ ContextTyped' /\ values' \in [0..(MaxTrace - 1) -> Word]
      /\ \A j \in 0..(MaxTrace - 1) : j # Slot(n) => values'[j] = values[j]
      /\ ~Wild(s[2]) /\ code[s[2]].op = "ecall" => values'[Slot(n)] = reg[cur]["a0"]
  <2>1. CASE Wild(s[2])
    BY <1>0, <1>1, <1>4, <2>1 DEF Typed, ContextTyped
  <2>2. CASE ~Wild(s[2])
    BY <1>0, <1>2, <1>4, <2>2, UndoTyped DEF Frozen
  <2> QED
    BY <2>1, <2>2
<1>6. \A t \in Window : t # n => values'[Slot(t)] = values[Slot(t)]
  <2> SUFFICES ASSUME NEW t \in Window, t # n PROVE values'[Slot(t)] = values[Slot(t)]
    OBVIOUS
  <2>1. t \in Nat /\ t < n + MaxTrace /\ n < t + MaxTrace
    BY <1>0, <1>1, <1>2 DEF Window
  <2>2. Slot(t) # Slot(n)
    BY <1>0, <1>1, <2>1, SlotsDiffer
  <2> QED
    BY <1>5, <2>1, <2>2, SlotRange
<1>7. Typed'
  BY <1>0, <1>1, <1>4, <1>5 DEF Typed, ContextTyped, Frozen, Snapshot
<1>8. Clock'
  BY <1>0, <1>1, <1>4 DEF Clock, Frozen
<1>9. Traced' /\ Chained' /\ Divided' /\ Reached'
  <2>1. \A t \in Window : t < tc' => values'[Slot(t)] = values[Slot(t)]
    BY <1>0, <1>1, <1>6 DEF Window
  <2> QED
    BY <1>0, <1>1, <1>4, <2>1, FrozenStep
<1>10. ASSUME Undisturbed
       PROVE  phase' # "crashed" /\ Moved = s /\ Returned'
  <2>1. /\ State(cur) = Past(tc) /\ Returned
    BY <1>0, <1>10 DEF ReplayInv, Replaying
  <2>2. /\ s[1] = cur /\ Uses(code, s) \subseteq mapped[cur]
        /\ n + 1 < Len(past) => Follows(code, s, past[n + 2])
    BY <1>1, <1>10, Position DEF s
  <2>3. /\ n + 1 < Len(past) => Follows(code, s, State(cur)) /\ past[n + 2] = State(cur)
        /\ n + 1 = Len(past) => State(cur) = s /\ At(code, s).op = "divu"
    <3>1. n + 1 = tc /\ n + 2 = tc + 1
      BY <1>0
    <3> QED
      BY <1>0, <1>1, <2>1, <2>2, <3>1 DEF Past, ReplayInv, Divided, s
  <2>4. ~Wild(s[2])
    <3> SUFFICES ASSUME At(code, s).op = "store" PROVE reg[cur][At(code, s).rs] \in mapped[cur]
      BY DEF Wild, At
    <3>1. reg[cur] = s[3]
      BY <1>1, <2>3 DEF Follows, State
    <3> QED
      BY <2>2, <3>1 DEF Uses
  <2>5. Undo(s[2], Slot(n)) /\ Jump(s[2]) /\ phase' = "undo" /\ code' = code
    BY <1>0, <1>4, <2>4 DEF Frozen
  <2>6. Moved = s
    <3>1. CASE n + 1 < Len(past)
      BY <1>0, <1>2, <2>3, <2>5, <3>1, Undone
    <3>2. CASE n + 1 = Len(past)
      <4>1. State(cur) = s /\ pc[cur] = s[2]
        BY <2>3, <3>2 DEF State
      <4> QED
        BY <1>0, <1>2, <2>3, <2>5, <3>2, <4>1, DivisionUndone
    <3> QED
      BY <1>1, <3>1, <3>2
  <2>7. Returned'
    <3> SUFFICES ASSUME NEW t \in Window, t >= n, At(code, past[t + 1]).op = "ecall"
                 PROVE  values'[Slot(t)] = past[t + 2][3]["a0"]
      BY <1>0, <2>5 DEF Returned, Window, Frozen, Slot
    <3>1. CASE t = n
      <4>1. At(code, s).op = "ecall"
        BY <3>1 DEF s
      <4>2. past[n + 2] = State(cur) /\ values'[Slot(n)] = reg[cur]["a0"]
        BY <1>1, <1>5, <2>3, <2>4, <4>1 DEF At
      <4> QED
        BY <3>1, <4>2 DEF State
    <3>2. CASE t # n
      <4>1. t >= tc /\ values'[Slot(t)] = values[Slot(t)]
        BY <1>0, <1>6, <3>2 DEF Window
      <4> QED
        BY <2>1, <4>1 DEF Returned
    <3> QED
      BY <3>1, <3>2
  <2> QED
    BY <2>5, <2>6, <2>7
<1>11. Replaying'
  <2>1. State(cur)' = Moved /\ Past(tc)' = s /\ Undisturbed' = Undisturbed
    BY <1>0, <1>1 DEF State, Moved, Past, Undisturbed, Window, Frozen, s
  <2> QED
    BY <1>10, <2>1 DEF Replaying
<1> QED
  BY <1>7, <1>8, <1>9, <1>11 DEF ReplayInv

(* The whole trace is undone, so that every call has left what it returned.*)
LEMMA RedoStarts ==
  ASSUME ReplayInv, RedoStart
  PROVE  ReplayInv'
<1>0. /\ phase = "undo" /\ phase' = "redo" /\ tl = 0 /\ Frozen
      /\ UNCHANGED <<gc, pc, reg, mem, tc, values>>
      /\ tl' = IF Len(past) < MaxTrace THEN Len(past) ELSE MaxTrace
      /\ Len(past) \in Nat /\ MaxTrace \in Nat \ {0} /\ tc \in Nat
  BY ReplayAssumption
     DEF ReplayAssumption, ReplayInv, Typed, RedoStart, Static, Unrecorded, context, Frozen
<1>1. tc = Base /\ tl' = Len(past) - Base
  BY <1>0 DEF ReplayInv, Clock, Base
<1>2. Typed'
  BY <1>0 DEF ReplayInv, Typed, Frozen, Line, Snapshot
<1>3. Clock'
  BY <1>0, <1>1 DEF ReplayInv, Clock, Base, Frozen
<1>4. Traced' /\ Chained' /\ Divided' /\ Reached'
  BY <1>0, FrozenStep
<1>5. Replaying'
  <2>1. \A t \in Window : t >= tc
    BY <1>0, <1>1 DEF Base, Window
  <2> QED
    BY <1>0, <2>1
       DEF ReplayInv, Replaying, Frozen, Undisturbed, Window, State, Past, Returned, Slot
<1> QED
  BY <1>2, <1>3, <1>4, <1>5 DEF ReplayInv

LEMMA RedoingStep ==
  ASSUME ReplayInv, RedoStep
  PROVE  ReplayInv'
<1> DEFINE s == past[tc + 1]
<1>0. /\ Typed /\ Clock /\ cur \in Ctx /\ phase = "redo" /\ phase' = "redo"
      /\ MaxTrace \in Nat \ {0} /\ tc' = tc + 1 /\ tl' = tl - 1 /\ Frozen
      /\ UNCHANGED <<gc, values>> /\ tl \in 0..MaxTrace /\ tl > 0
      /\ Len(past) \in Nat /\ tc \in Nat /\ pc[cur] \in Line /\ Line' = Line
  BY ReplayAssumption
     DEF ReplayAssumption, ReplayInv, Typed, RedoStep, Static, Frozen, Line
<1>1. Base \in Nat /\ Base <= tc /\ tc < Len(past) /\ Base' = Base
  BY <1>0 DEF Clock, Base, Frozen
<1>2. tc \in Window /\ s \in Snapshot /\ Slot(tc) \in 0..(MaxTrace - 1)
  BY <1>0, <1>1, Position, SlotRange
<1> HIDE DEF s
<1>3. \/ (Faults \/ Divides) /\ UNCHANGED <<pc, reg, mem>>
      \/ ~Faults /\ ~Divides /\ Now.op # "ecall" /\ Execute
      \/ Now.op = "ecall" /\ Recall /\ Advance /\ UNCHANGED mem
  BY DEF RedoStep, context
<1>4. ContextTyped'
  <2>1. CASE (Faults \/ Divides) /\ UNCHANGED <<pc, reg, mem>>
    BY <1>0, <2>1 DEF Typed, ContextTyped
  <2>2. CASE ~Faults /\ ~Divides /\ Now.op # "ecall" /\ Execute
    BY <1>0, <2>2, Executed DEF Frozen
  <2>3. CASE Now.op = "ecall" /\ Recall /\ Advance /\ UNCHANGED mem
    <3>1. values[Slot(tc)] \in Word /\ "a0" \in Reg /\ After(pc[cur]) \in Line
      BY <1>0, <1>2, ProgramType DEF Typed, Reg
    <3> QED
      BY <1>0, <2>3, <3>1 DEF Typed, ContextTyped, Recall, Write, Advance, Jump
  <2> QED
    BY <1>3, <2>1, <2>2, <2>3
<1>5. Typed'
  BY <1>0, <1>4 DEF Typed, ContextTyped, Frozen, Snapshot
<1>6. Clock'
  BY <1>0, <1>1 DEF Clock, Frozen
<1>7. Traced' /\ Chained' /\ Divided' /\ Reached'
  BY <1>0, FrozenStep
<1>8. ASSUME Undisturbed
      PROVE  Moved = Past(tc + 1) /\ Returned
  <2>1. State(cur) = s /\ Returned
    BY <1>0, <1>1, <1>8 DEF ReplayInv, Replaying, Past, s
  <2>2. /\ s[1] = cur /\ Uses(code, s) \subseteq mapped[cur]
        /\ tc + 1 < Len(past) => past[tc + 2] \in Snapshot /\ Follows(code, s, past[tc + 2])
    BY <1>0, <1>1, <1>8, Position DEF s
  <2>3. /\ At(code, s) = Now /\ s[3] = reg[cur] /\ ~Faults
        /\ Divides <=> At(code, s).op = "divu" /\ s[3][At(code, s).rs] = 0
    <3>1. At(code, s) = Now /\ s[3] = reg[cur]
      BY <2>1 DEF At, Now, State
    <3> QED
      BY <2>2, <3>1 DEF Uses, Faults, Address, Divides
  <2>4. CASE tc + 1 < Len(past)
    <3> DEFINE u == past[tc + 2]
    <3>1. Past(tc + 1) = u /\ Tuple(u) /\ Follows(code, s, u) /\ ~Divides
      <4>1. Past(tc + 1) = u
        BY <1>0, <2>4 DEF Past
      <4>2. ~Divides
        BY <2>2, <2>3, <2>4 DEF Follows
      <4> QED
        BY <2>2, <2>4, <4>1, <4>2, SnapshotType
    <3> HIDE DEF u
    <3>2. CASE Now.op # "ecall" /\ Execute
      <4>1. Follows(code, s, Moved) /\ Tuple(Moved)
        BY <1>0, <2>1, <3>2, Executed DEF Frozen, Moved, Tuple
      <4> QED
        BY <2>1, <2>3, <3>1, <3>2, <4>1, OneOutcome
    <3>3. CASE Now.op = "ecall" /\ Recall /\ Advance /\ UNCHANGED mem
      <4>1. values[Slot(tc)] = u[3]["a0"]
        BY <1>0, <1>2, <2>1, <2>3, <3>3 DEF Returned, s, u
      <4>2. /\ u[1] = cur /\ u[2] = NextLine(code, s[2])
            /\ u[3] = [s[3] EXCEPT !["a0"] = u[3]["a0"]] /\ u[4] = s[4]
        BY <2>2, <2>3, <3>1, <3>3 DEF Follows, Wrote, WentOn
      <4>3. s[2] = pc[cur] /\ s[4] = mem[cur]
        BY <2>1 DEF State
      <4>4. /\ pc'[cur] = NextLine(code, pc[cur]) /\ mem'[cur] = mem[cur]
            /\ reg'[cur] = [reg[cur] EXCEPT !["a0"] = values[Slot(tc)]]
        BY <1>0, <3>3 DEF Typed, Recall, Write, Advance, Jump, After, NextLine
      <4>5. pc'[cur] = u[2] /\ mem'[cur] = u[4]
        BY <4>2, <4>3, <4>4
      <4>6. reg'[cur] = u[3]
        BY <2>3, <4>1, <4>2, <4>4
      <4> HIDE DEF u
      <4> QED
        BY <2>1, <3>1, <4>2, <4>5, <4>6 DEF Moved, Tuple
    <3> QED
      BY <1>3, <2>1, <2>3, <3>1, <3>2, <3>3
  <2>5. CASE tc + 1 = Len(past)
    <3>1. Past(tc + 1) = s
      BY <1>0, <2>5 DEF Past, s
    <3>2. Divides
      BY <1>0, <2>3, <2>5 DEF ReplayInv, Divided, s
    <3>3. UNCHANGED <<pc, reg, mem>>
      BY <1>3, <3>2 DEF Divides
    <3> QED
      BY <2>1, <3>1, <3>3 DEF Moved, State
  <2> QED
    BY <1>0, <1>1, <2>1, <2>4, <2>5
<1>9. Replaying'
  <2>1. State(cur)' = Moved /\ Past(tc)' = Past(tc + 1) /\ Undisturbed' = Undisturbed
    BY <1>0 DEF State, Moved, Past, Undisturbed, Window, Frozen
  <2>2. Returned => Returned'
    BY <1>0 DEF Returned, Window, Frozen, Slot
  <2> QED
    BY <1>0, <1>8, <2>1, <2>2 DEF Replaying
<1> QED
  BY <1>5, <1>6, <1>7, <1>9 DEF ReplayInv

LEMMA FinishStep ==
  ASSUME ReplayInv, Finish
  PROVE  ReplayInv'
<1>0. /\ phase = "redo" /\ phase' = "done" /\ tl = 0 /\ Frozen
      /\ UNCHANGED <<gc, pc, reg, mem, tc, tl, values>> /\ Len(past) \in Nat /\ tc \in Nat
  BY DEF ReplayInv, Typed, Finish, Static, Unrecorded, context, Frozen
<1>1. tc = Len(past)
  BY <1>0 DEF ReplayInv, Clock
<1>2. Typed'
  BY <1>0 DEF ReplayInv, Typed, Frozen, Line, Snapshot
<1>3. Clock'
  BY <1>0, <1>1 DEF ReplayInv, Clock, Base, Frozen
<1>4. Traced' /\ Chained' /\ Divided' /\ Reached'
  BY <1>0, FrozenStep
<1>5. Replaying'
  BY <1>0
     DEF ReplayInv, Replaying, Frozen, Undisturbed, Window, State, Past, Returned, Slot
<1> QED
  BY <1>2, <1>3, <1>4, <1>5 DEF ReplayInv

-----------------------------------------------------------------------------
LEMMA ReplayStarts ==
  ASSUME ReplayInit
  PROVE  ReplayInv
<1>0. MaxTrace \in Nat \ {0} /\ MaxTime \in Nat /\ Len(past) = 0 /\ past = <<>>
  BY ReplayAssumption DEF ReplayAssumption, ReplayInit
<1>1. 0 \in Line
  <2>1. /\ Cardinality(Line) \in Nat \ {0}
        /\ code \in [0 .. (Cardinality(Line) - 1) -> Instruction(Line)]
    BY ReplayAssumption DEF ReplayAssumption, ReplayInit, Line
  <2>2. Line = 0 .. (Cardinality(Line) - 1)
    BY <2>1 DEF Line
  <2> QED
    BY <2>1, <2>2
<1>2. Typed
  BY <1>0, <1>1 DEF ReplayInit, Typed, Word, Reg
<1>3. Clock /\ Divided /\ Replaying
  BY <1>0 DEF ReplayInit, Clock, Divided, Replaying
<1>4. Traced /\ Chained /\ Reached
  BY <1>0 DEF Traced, Window, Chained, Reached
<1> QED
  BY <1>2, <1>3, <1>4 DEF ReplayInv

LEMMA ReplayInvHolds == ReplaySpec => []ReplayInv
<1>1. ReplayInit => ReplayInv
  BY ReplayStarts
<1>2. ReplayInv /\ [ReplayNext]_replayVars => ReplayInv'
  <2> SUFFICES ASSUME ReplayInv, [ReplayNext]_replayVars PROVE ReplayInv'
    OBVIOUS
  <2>1. CASE Step \/ PageFault \/ Call \/ Block \/ SwitchContext
    BY <2>1, RunStep
  <2>2. CASE DivisionByZero
    BY <2>2, DivisionStep
  <2>3. CASE UndoStep
    BY <2>3, UndoingStep
  <2>4. CASE RedoStart
    BY <2>4, RedoStarts
  <2>5. CASE RedoStep
    BY <2>5, RedoingStep
  <2>6. CASE Finish
    BY <2>6, FinishStep
  <2>7. CASE UNCHANGED replayVars
    BY <2>7
       DEF replayVars, context, ReplayInv, Typed, Line, Snapshot, Clock, Base, Traced, Window,
           Slot, Chained, State, Divided, Reached, Replaying, Undisturbed, Past, Returned
  <2> QED
    BY <2>1, <2>2, <2>3, <2>4, <2>5, <2>6, <2>7 DEF ReplayNext
<1> QED
  BY <1>1, <1>2, PTL DEF ReplaySpec

(* ripster's state keeps its types: registers and memory hold words and    *)
(* program counters lines of the code whatever is undone in whichever      *)
(* context, and replay never leaves the part of the trace that is still    *)
(* there.                                                                  *)
THEOREM ReplayTypeCorrect == ReplaySpec => []ReplayTypeOK
<1>1. ReplayInv => ReplayTypeOK
  <2> SUFFICES ASSUME ReplayInv PROVE ReplayTypeOK
    OBVIOUS
  <2>1. /\ MaxTrace \in Nat \ {0} /\ MaxTime \in Nat /\ Len(past) \in Nat /\ Len(past) <= MaxTime
        /\ tc \in Nat /\ tl \in 0..MaxTrace /\ Clock
    BY ReplayAssumption DEF ReplayAssumption, ReplayInv, Typed
  <2>2. tc <= Len(past) /\ (phase # "run" => Len(past) - MaxTrace <= tc)
    BY <2>1 DEF Clock, Base
  <2> QED
    BY <2>1, <2>2 DEF ReplayInv, Typed, ReplayTypeOK, Line
<1> QED
  BY <1>1, ReplayInvHolds, PTL

(* Replay is faithful: as long as the trace is of one context, and its     *)
(* system calls did nothing but return a value, undoing leads back through *)
(* the very states the context was in, executing again leads forth through *)
(* them, and replay ends in the state of the division by zero.             *)
THEOREM ReplayFaithful == ReplaySpec => []Replays
<1>1. ReplayInv => Replays
  BY DEF ReplayInv, Replaying, Replays
<1> QED
  BY <1>1, ReplayInvHolds, PTL
=============================================================================
