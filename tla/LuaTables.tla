----------------------------- MODULE LuaTables -----------------------------
(***************************************************************************)
(* Lua tables as the Lua 5.1 manual defines them (sections 2.2, 2.5.7):   *)
(* a table maps every value except nil to a value, nil when absent; keys  *)
(* are compared raw, so the integer 1 and the float 1.0 are one number    *)
(* key.  Globals are the fields of the global table.  A table constructor *)
(* builds a new table: empty, or holding the fields of a constant table.  *)
(*                                                                         *)
(* The state is one frame's registers, the tables, which of them are      *)
(* allocated, and the last instruction executed (ins).  An instruction    *)
(* names its operands: registers, or a key given as a constant.  stopped *)
(* says the program ended with an error, or at an operation the           *)
(* implementation leaves out; no instruction follows it.                   *)
(***************************************************************************)
EXTENDS Naturals

CONSTANTS
  Slots,        \* the frame's registers
  Values,       \* the values registers may start with
  Ids,          \* table identities
  Global,       \* the global table
  Templates,    \* Templates[c]: the fields of constant table c
  InitHeap,     \* the tables allocated when the program starts
  Consts,       \* the constant keys instructions may name
  MaxBytecodes  \* the most instructions a run executes

Nil == [ty |-> "nil"]
Tab(id) == [ty |-> "tab", v |-> id]

\* The key an instruction uses: a register's value or a constant.
KeyOf(r, ks) == IF ks.src = "reg" THEN r[ks.r] ELSE ks.c

VARIABLES reg, heap, live, stopped, steps, ins

vars == <<reg, heap, live, stopped, steps, ins>>

Init ==
  /\ reg \in [Slots -> Values]
  /\ live = DOMAIN InitHeap
  /\ heap = [id \in Ids |-> IF id \in live THEN InitHeap[id] ELSE [k \in {} |-> Nil]]
  /\ stopped = FALSE /\ steps = 0 /\ ins = [op |-> "none"]

IsTable(v) == v.ty = "tab" /\ v.v \in live

Exec(i) == ~stopped /\ steps < MaxBytecodes /\ steps' = steps + 1 /\ ins' = i

\* The value of field k of a table; nil when absent.
Field(t, k) == IF k \in DOMAIN t THEN t[k] ELSE Nil
SetField(t, k, v) == [x \in DOMAIN t \cup {k} |-> IF x = k THEN v ELSE t[x]]

\* R(dst) = R(t)[key]
Index(i) ==
  /\ i.op = "index" /\ Exec(i) /\ IsTable(reg[i.t])
  /\ reg' = [reg EXCEPT ![i.dst] = Field(heap[reg[i.t].v], KeyOf(reg, i.key))]
  /\ UNCHANGED <<heap, live, stopped>>

\* R(t)[key] = R(src), for a key that is not nil
NewIndex(i) ==
  /\ i.op = "newindex" /\ Exec(i) /\ IsTable(reg[i.t])
  /\ KeyOf(reg, i.key) # Nil
  /\ heap' = [heap EXCEPT ![reg[i.t].v] = SetField(@, KeyOf(reg, i.key), reg[i.src])]
  /\ UNCHANGED <<reg, live, stopped>>

\* R(dst) = _G[name]
GetGlobal(i) ==
  /\ i.op = "getglobal" /\ Exec(i)
  /\ reg' = [reg EXCEPT ![i.dst] = Field(heap[Global], i.key.c)]
  /\ UNCHANGED <<heap, live, stopped>>

\* _G[name] = R(src)
SetGlobal(i) ==
  /\ i.op = "setglobal" /\ Exec(i)
  /\ heap' = [heap EXCEPT ![Global] = SetField(@, i.key.c, reg[i.src])]
  /\ UNCHANGED <<reg, live, stopped>>

\* R(dst) = {} or a table holding the fields of constant table c
Construct(i) ==
  /\ i.op \in {"new", "dup"} /\ Exec(i)
  /\ \E id \in Ids \ live :
       /\ live' = live \cup {id}
       /\ heap' = [heap EXCEPT ![id] = IF i.op = "new" THEN [k \in {} |-> Nil] ELSE Templates[i.c]]
       /\ reg' = [reg EXCEPT ![i.dst] = Tab(id)]
  /\ UNCHANGED stopped

Stop == ~stopped /\ stopped' = TRUE /\ UNCHANGED <<reg, heap, live, steps, ins>>

KeySrcs == [src : {"reg"}, r : Slots] \cup [src : {"const"}, c : Consts]

Instrs ==
  [op : {"index"}, dst : Slots, t : Slots, key : KeySrcs] \cup
  [op : {"newindex"}, t : Slots, key : KeySrcs, src : Slots] \cup
  [op : {"getglobal"}, dst : Slots, key : [src : {"const"}, c : Consts]] \cup
  [op : {"setglobal"}, src : Slots, key : [src : {"const"}, c : Consts]] \cup
  [op : {"new"}, dst : Slots] \cup
  [op : {"dup"}, dst : Slots, c : DOMAIN Templates]

Next ==
  \/ \E i \in Instrs : Index(i) \/ NewIndex(i) \/ GetGlobal(i) \/ SetGlobal(i) \/ Construct(i)
  \/ Stop

Spec == Init /\ [][Next]_vars

=============================================================================
