------------------------------- MODULE Relocs -------------------------------
(***************************************************************************)
(* The libraries of elf64/relocs.2: someRelocations finds data or functions*)
(* through the global offset table and the procedure linkage table, by a   *)
(* different relocation in each.  The dynamic linker loads the library at  *)
(* any base and binds a slot of the table at once or when it is first      *)
(* used.  The @pltoff library reads an instruction of the linkage table to *)
(* find a slot, and overwrites it with another.                            *)
(***************************************************************************)
EXTENDS Integers, Sequences

CONSTANTS
  Bases,    \* load addresses
  MaxCalls  \* bound on the calls of someRelocations

\* What the composing module assumes of the constants.
RelocsAssumption == Bases \subseteq Nat /\ MaxCalls \in Nat

Variants == {"@got", "@gotoff", "@gotpcrel", "@gotplt", "@plt", "@pltoff"}
Symbols == {"sayHello", "sayGoodbye", "puts"}

VARIABLES
  variant, base,
  pc,
  todo,     \* what someRelocations has yet to do
  slots,    \* address of a slot -> the address in it
  rax, rdi, rbx,
  printed,  \* history of this call of someRelocations
  calls

vars == <<variant, base, pc, todo, slots, rax, rdi, rbx, printed, calls>>

\* Layout of a library: strings, code, linkage table, offset table, data.
Hello == base + 0
Function(s) == base + (CASE s = "sayHello" -> 10 [] s = "sayGoodbye" -> 20 [] s = "puts" -> 100)
PltEntry(s) == base + (CASE s = "sayHello" -> 32 [] s = "sayGoodbye" -> 48 [] s = "puts" -> 64)
Got == base + 200
HelloSlot == Got - 8     \* of the string: not a function, bound when loaded
SlotOf(s) == Got + (CASE s = "sayHello" -> 8 [] s = "sayGoodbye" -> 16 [] s = "puts" -> 24)
Goodbye == IF variant = "@gotoff" THEN base + 300 ELSE base + 5   \* in .data or .rodata

\* The jmp of a linkage table entry is six bytes, its operand relative to its end.
Jmp == 6
Operand(entry) == LET s == CHOOSE t \in Symbols : PltEntry(t) = entry IN SlotOf(s) - (entry + Jmp)

Text(address) == CASE address = Hello -> "Hello!" [] address = Goodbye -> "Goodbye!" [] OTHER -> "garbage"

Program(v) ==
  CASE v = "@got"      -> <<"got", "puts">>
    [] v = "@gotoff"   -> <<"offHello", "puts", "offGoodbye", "puts">>
    [] v = "@gotpcrel" -> <<"pcrel", "puts">>
    [] v = "@gotplt"   -> <<"sayHello", "slot", "indirect">>
    [] v = "@plt"      -> <<"sayHello">>
    [] v = "@pltoff"   -> <<"findSlots", "patch", "sayHello", "sayGoodbye">>

Init ==
  /\ variant \in Variants /\ base \in Bases
  /\ pc = "main" /\ todo = <<>> /\ printed = <<>> /\ calls = 0
  /\ \E lazy \in BOOLEAN :
       slots = [d \in {SlotOf(s) : s \in Symbols} |->
                  LET s == CHOOSE t \in Symbols : SlotOf(t) = d
                  IN  IF lazy THEN PltEntry(s) + Jmp ELSE Function(s)]
  /\ rax = 0 /\ rdi = 0 /\ rbx = -1   \* -1: main's

-----------------------------------------------------------------------------
\* main calls someRelocations, with rbx as the call before has left it: the
\* @pltoff library does not save it.
Call ==
  /\ pc = "main" /\ calls < MaxCalls
  /\ pc' = "lib" /\ calls' = calls + 1
  /\ todo' = Program(variant) /\ printed' = <<>>
  /\ UNCHANGED <<variant, base, slots, rax, rdi, rbx>>

Does(step) == pc = "lib" /\ todo # <<>> /\ Head(todo) = step /\ todo' = Tail(todo)
Rest == UNCHANGED <<variant, base, pc, calls>>

\* @GOT: offset of the slot from the table, the table's address, the slot.
LoadGot ==
  /\ Does("got")
  /\ rax' = (HelloSlot - Got) + Got
  /\ rdi' = Hello
  /\ UNCHANGED <<slots, rbx, printed>> /\ Rest

\* @GOTPCREL: the slot relative to the instruction.
LoadGotPcRel ==
  /\ Does("pcrel")
  /\ rdi' = Hello
  /\ UNCHANGED <<slots, rax, rbx, printed>> /\ Rest

\* @GOTOFF: offset of the string from the table, and the table's address.
LoadGotOff ==
  /\ \/ Does("offHello") /\ rdi' = (Hello - Got) + Got
     \/ Does("offGoodbye") /\ rdi' = (Goodbye - Got) + Got
  /\ UNCHANGED <<slots, rax, rbx, printed>> /\ Rest

\* @GOTPLT: offset of the function's slot from the table, kept in data.
LoadGotPlt ==
  /\ Does("slot")
  /\ rax' = (SlotOf("sayHello") - Got) + Got
  /\ UNCHANGED <<slots, rdi, rbx, printed>> /\ Rest

\* Mutant: the length of the jmp is not added.
FindSlotsShort ==
  /\ Does("findSlots")
  /\ LET hello == (PltEntry("sayHello") - Got) + Got
         bye == (PltEntry("sayGoodbye") - Got) + Got
     IN  rax' = Operand(hello) + hello /\ rbx' = Operand(bye) + bye
  /\ UNCHANGED <<slots, rdi, printed>> /\ Rest

\* @PLTOFF: the entries of both functions, and through the operand of their
\* jmp their slots.
FindSlots ==
  /\ Does("findSlots")
  /\ LET hello == (PltEntry("sayHello") - Got) + Got
         bye == (PltEntry("sayGoodbye") - Got) + Got
     IN  rax' = Operand(hello) + hello + Jmp /\ rbx' = Operand(bye) + bye + Jmp
  /\ UNCHANGED <<slots, rdi, printed>> /\ Rest

\* Mutant: the copy goes the other way.
PatchBack ==
  /\ Does("patch")
  /\ slots' = [slots EXCEPT ![rbx] = slots[rax]]
  /\ UNCHANGED <<rax, rdi, rbx, printed>> /\ Rest

\* Mutant: the slots are exchanged.
PatchSwap ==
  /\ Does("patch")
  /\ slots' = [slots EXCEPT ![rbx] = slots[rax], ![rax] = slots[rbx]]
  /\ UNCHANGED <<rax, rdi, rbx, printed>> /\ Rest

\* The slot of sayGoodbye over that of sayHello.
Patch ==
  /\ Does("patch")
  /\ slots' = [d \in DOMAIN slots |-> IF d = rax /\ rbx \in DOMAIN slots THEN slots[rbx] ELSE slots[d]]
  /\ UNCHANGED <<rax, rdi, rbx, printed>> /\ Rest

-----------------------------------------------------------------------------
\* Where a jump through a slot ends: an unbound slot leads to the resolver,
\* with the symbol of the entry it leads back to.
Reached(d) ==
  CHOOSE s \in Symbols : slots[d] = Function(s) \/ slots[d] = PltEntry(s) + Jmp

\* The resolver binds the slot of the symbol it is given.
Resolve(d) ==
  LET s == Reached(d)
  IN  IF slots[d] = Function(s) THEN slots ELSE [slots EXCEPT ![SlotOf(s)] = Function(s)]

\* puts with the string in rdi.
Puts ==
  /\ Does("puts")
  /\ printed' = Append(printed, Text(rdi))
  /\ slots' = Resolve(SlotOf("puts"))
  /\ UNCHANGED <<rax, rdi, rbx>> /\ Rest

\* sayHello or sayGoodbye, whichever the slot leads to: loads its string and
\* calls puts.
Say(d) ==
  LET s == Reached(d)
  IN  /\ rdi' = IF s = "sayHello" THEN Hello ELSE Goodbye
      /\ printed' = Append(printed, Text(rdi'))
      /\ slots' = LET bound == Resolve(d)
                  IN  [bound EXCEPT ![SlotOf("puts")] = Function("puts")]
      /\ UNCHANGED <<rax, rbx>>

SayThroughPlt ==
  /\ \/ Does("sayHello") /\ Say(SlotOf("sayHello"))
     \/ Does("sayGoodbye") /\ Say(SlotOf("sayGoodbye"))
  /\ Rest

\* call *(%rax)
SayIndirect == Does("indirect") /\ Say(rax) /\ Rest

Return ==
  /\ pc = "lib" /\ todo = <<>>
  /\ pc' = "main"
  /\ UNCHANGED <<variant, base, todo, slots, rax, rdi, rbx, printed, calls>>

Next ==
  \/ Call \/ LoadGot \/ LoadGotPcRel \/ LoadGotOff \/ LoadGotPlt \/ FindSlots \/ Patch
  \/ Puts \/ SayThroughPlt \/ SayIndirect \/ Return

Spec == Init /\ [][Next]_vars

-----------------------------------------------------------------------------
\* Every variable has its type.
TypeOK ==
  /\ variant \in Variants /\ base \in Bases /\ pc \in {"main", "lib"}
  /\ calls \in 0 .. MaxCalls
  /\ DOMAIN slots = {SlotOf(s) : s \in Symbols}
  /\ \A d \in DOMAIN slots :
       slots[d] \in {Function(s) : s \in Symbols} \cup {PltEntry(s) + Jmp : s \in Symbols}
  /\ \A n \in DOMAIN printed : printed[n] \in {"Hello!", "Goodbye!"}

Expected ==
  CASE variant \in {"@got", "@gotpcrel", "@plt"} -> <<"Hello!">>
    [] variant = "@gotplt" -> <<"Hello!", "Hello!">>
    [] variant = "@gotoff" -> <<"Hello!", "Goodbye!">>
    [] variant = "@pltoff" -> <<"Goodbye!", "Goodbye!">>

(***************************************************************************)
(* Every library prints what it is meant to, at every load address, with   *)
(* slots bound early or late, and at the first call as at the next.  For   *)
(* @pltoff that is the comment "if the hackery is sound it should print    *)
(* 'Goodbye!' twice".                                                      *)
(***************************************************************************)
PrintsExpected == pc = "main" /\ calls > 0 => printed = Expected

(***************************************************************************)
(* The exchange of slots changes where a name leads and nothing else: the  *)
(* slot of sayHello never leads to anything but the two functions, no      *)
(* other slot leads anywhere but to its own, and only @pltoff changes any. *)
(***************************************************************************)
OnlyHelloRedirected ==
  \A s \in Symbols :
    LET own == {Function(s), PltEntry(s) + Jmp}
        byes == {Function("sayGoodbye"), PltEntry("sayGoodbye") + Jmp}
    IN  slots[SlotOf(s)] \in IF variant = "@pltoff" /\ s = "sayHello" THEN own \cup byes ELSE own

(***************************************************************************)
(* Once the slot was overwritten, sayHello is never bound again: the       *)
(* resolver is asked for sayGoodbye in its place.                          *)
(***************************************************************************)
KeepsRedirection ==
  slots[SlotOf("sayHello")] \in {Function("sayGoodbye"), PltEntry("sayGoodbye") + Jmp}
    => slots'[SlotOf("sayHello")] \in {Function("sayGoodbye"), PltEntry("sayGoodbye") + Jmp}
=============================================================================
