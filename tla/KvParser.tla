------------------------------ MODULE KvParser ------------------------------
(***************************************************************************)
(* findKeyLen of kvparser.s: the length of the key in front of the first   *)
(* separator, looked for sixteen bytes at a time with pcmpestri.  The      *)
(* length of the text is a 32-bit register that is counted down below zero.*)
(***************************************************************************)
EXTENDS Integers, Sequences, FiniteSetsExt

CONSTANTS
  Chunk,    \* bytes in a vector: 16
  Lengths,  \* lengths the function is called with
  Behind    \* bytes behind the text that are readable: a separator may be there

\* What the composing module assumes of the constants.
KvAssumption == Chunk \in Nat \ {0} /\ Lengths \subseteq Nat /\ Behind \in Nat

VARIABLES
  pc,
  length,  \* the length of the text: esi at the call
  seps,    \* the positions of the separators : ; and =, behind the text too
  rdi,     \* how far the pointer has moved
  r8d,     \* bytes in the chunks before
  esi,     \* bytes remaining
  ecx,     \* what pcmpestri found
  eax

vars == <<pc, length, seps, rdi, r8d, esi, ecx, eax>>

Init ==
  /\ length \in Lengths
  /\ \E positions \in SUBSET (0 .. length + Behind - 1) :
       Cardinality(positions) <= 2 /\ seps = positions
  /\ pc = "compare"
  /\ rdi = 0 /\ r8d = 0 /\ esi = length /\ ecx = 0 /\ eax = 0

\* Mutant: the length is not given to pcmpestri.
CompareWhole ==
  /\ pc = "compare" /\ pc' = "branch"
  /\ LET found == {n \in 0 .. Chunk - 1 : rdi + n \in seps}
     IN  ecx' = IF found = {} THEN Chunk ELSE Min(found)
  /\ UNCHANGED <<length, seps, rdi, r8d, esi, eax>>

\* .L10: pcmpestri $0, equal any; the index of the first match among the valid
\* bytes, or 16.  A length above 16 counts as 16.
Compare ==
  /\ pc = "compare" /\ pc' = "branch"
  /\ LET found == {n \in 0 .. Chunk - 1 : n < esi /\ rdi + n \in seps}
     IN  ecx' = IF found = {} THEN Chunk ELSE Min(found)
  /\ UNCHANGED <<length, seps, rdi, r8d, esi, eax>>

\* .L20: the index in this chunk plus the chunks before.
Found ==
  /\ pc = "branch" /\ ecx < Chunk
  /\ pc' = "ret"
  /\ eax' = ecx + r8d
  /\ UNCHANGED <<length, seps, rdi, r8d, esi, ecx>>

\* Mutant: the length is not counted.
NextChunkForever ==
  /\ pc = "branch" /\ ecx >= Chunk
  /\ rdi' = (rdi + Chunk) % (2 * Chunk)
  /\ r8d' = (r8d + Chunk) % (2 * Chunk)
  /\ esi' = esi
  /\ IF esi' <= 0 THEN pc' = "ret" /\ eax' = -1 ELSE pc' = "compare" /\ UNCHANGED eax
  /\ UNCHANGED <<length, seps, ecx>>

\* Mutant: goes on at zero remaining.
NextChunkJl ==
  /\ pc = "branch" /\ ecx >= Chunk
  /\ rdi' = rdi + Chunk
  /\ r8d' = r8d + Chunk
  /\ esi' = esi - Chunk
  /\ IF esi' < 0 THEN pc' = "ret" /\ eax' = -1 ELSE pc' = "compare" /\ UNCHANGED eax
  /\ UNCHANGED <<length, seps, ecx>>

\* On to the next chunk, or .L30 if nothing remains.
NextChunk ==
  /\ pc = "branch" /\ ecx >= Chunk
  /\ rdi' = rdi + Chunk
  /\ r8d' = r8d + Chunk
  /\ esi' = esi - Chunk
  /\ IF esi' <= 0 THEN pc' = "ret" /\ eax' = -1 ELSE pc' = "compare" /\ UNCHANGED eax
  /\ UNCHANGED <<length, seps, ecx>>

Next == Compare \/ Found \/ NextChunk
Spec == Init /\ [][Next]_vars /\ WF_vars(Next)

-----------------------------------------------------------------------------
\* Every variable has its type.
TypeOK ==
  /\ pc \in {"compare", "branch", "ret"}
  /\ rdi \in Nat /\ r8d = rdi
  /\ esi = length - rdi /\ ecx \in 0 .. Chunk
  /\ eax \in -1 .. length + Chunk

InText == {p \in seps : p < length}

(***************************************************************************)
(* The result is the position of the first separator of the text, whatever *)
(* chunk it is in, and -1 if there is none, whatever follows the text; an  *)
(* empty text has none.                                                    *)
(***************************************************************************)
FirstSeparator ==
  pc = "ret" => eax = IF InText = {} THEN -1 ELSE Min(InText)

(***************************************************************************)
(* The function reads whole chunks, the last of which may reach behind the *)
(* text: it never reads a chunk that begins at its end or later, but for   *)
(* the one of an empty text.                                               *)
(***************************************************************************)
ReadsOnlyTouchingChunks == pc = "branch" => rdi < length \/ length = 0

\* The search ends.
Returns == <>(pc = "ret")
=============================================================================
