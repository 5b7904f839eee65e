------------------------------ MODULE SeedMask ------------------------------
(***************************************************************************)
(* utils.rs expand_spaced_seed_mask (lines 53-70): every bit i of the     *)
(* spaced-seed mask becomes a run of bit_expansion_factor bits.  The code *)
(* works on u64; the model is parameterised by the width W of the word    *)
(* (64 in the code) so that TLC can enumerate every mask.  Shifts follow  *)
(* Rust: a shift by W or more panics in a debug build and is taken modulo *)
(* W in a release build.  Each loop iteration is one step.                *)
(***************************************************************************)
EXTENDS Naturals

CONSTANTS
  W,        \* word width (u64: 64)
  Factors   \* bit_expansion_factor values to try

VARIABLES
  mask,     \* spaced_seed_mask
  factor,   \* bit_expansion_factor
  build,    \* "debug" | "release"
  pc,       \* "entry" | "loop" | "done" | "panicked"
  i,        \* loop index, counting down
  newMask,  \* new_mask; the return value once pc = "done"
  bits      \* (1 << factor) - 1

vars == <<mask, factor, build, pc, i, newMask, bits>>

Word == 0 .. 2^W - 1

(* x << s on a W-bit word, in a release build.                            *)
Shl(x, s) == (x * 2^(s % W)) % 2^W

Bit(x, j) == (x \div 2^j) % 2

Init ==
  /\ mask \in Word
  /\ factor \in Factors
  /\ build \in {"debug", "release"}
  /\ pc = "entry"
  /\ i = 0
  /\ newMask = 0
  /\ bits = 0

(* Fault: the loop starts at W / factor instead of W / factor - 1.        *)
EntryFromTop ==
  /\ pc = "entry"
  /\ IF factor = 0 \/ factor > W
       THEN /\ newMask' = mask
            /\ pc' = "done"
            /\ UNCHANGED <<i, bits>>
       ELSE IF factor >= W /\ build = "debug"
       THEN /\ pc' = "panicked"
            /\ UNCHANGED <<i, newMask, bits>>
       ELSE /\ bits' = (Shl(1, factor) + 2^W - 1) % 2^W
            /\ i' = W \div factor
            /\ newMask' = 0
            /\ pc' = "loop"
  /\ UNCHANGED <<mask, factor, build>>

(* Lines 55-62: the early return, then bits = (1 << factor) - 1 and the  *)
(* loop over (0 .. W / factor).rev().                                     *)
Entry ==
  /\ pc = "entry"
  /\ IF factor = 0 \/ factor > W
       THEN /\ newMask' = mask
            /\ pc' = "done"
            /\ UNCHANGED <<i, bits>>
       ELSE IF factor >= W /\ build = "debug"
       THEN /\ pc' = "panicked"
            /\ UNCHANGED <<i, newMask, bits>>
       ELSE /\ bits' = (Shl(1, factor) + 2^W - 1) % 2^W
            /\ i' = W \div factor - 1
            /\ newMask' = 0
            /\ pc' = "loop"
  /\ UNCHANGED <<mask, factor, build>>

(* Fault: the countdown decrements past 0 once more.                      *)
LoopStepPastZero ==
  /\ pc = "loop"
  /\ IF factor >= W /\ build = "debug"
       THEN /\ pc' = "panicked"
            /\ UNCHANGED <<i, newMask>>
       ELSE /\ newMask' = Shl(newMask, factor) + (IF Bit(mask, i) = 1 THEN bits ELSE 0)
            /\ pc' = IF i = 0 THEN "done" ELSE "loop"
            /\ i' = i - 1
  /\ UNCHANGED <<mask, factor, build, bits>>

(* Lines 63-66: new_mask <<= factor; if bit i of the mask is set,        *)
(* new_mask |= bits (the low factor bits are zero after the shift, so    *)
(* the or is an addition).                                                *)
LoopStep ==
  /\ pc = "loop"
  /\ IF factor >= W /\ build = "debug"
       THEN /\ pc' = "panicked"
            /\ UNCHANGED <<i, newMask>>
       ELSE /\ newMask' = Shl(newMask, factor) + (IF Bit(mask, i) = 1 THEN bits ELSE 0)
            /\ pc' = IF i = 0 THEN "done" ELSE "loop"
            /\ i' = IF i = 0 THEN 0 ELSE i - 1
  /\ UNCHANGED <<mask, factor, build, bits>>

Next == Entry \/ LoopStep

Spec == Init /\ [][Next]_vars

-----------------------------------------------------------------------------
(* Reference: group j (bits j*f .. j*f+f-1) of the result is all ones    *)
(* exactly when bit j of the mask is set, for the W div f groups that fit *)
(* in the word; factors 0 and above W return the mask unchanged (doc      *)
(* comment, lines 43-51).                                                 *)
RECURSIVE RefGroups(_, _, _)
RefGroups(m, f, j) ==
  IF j = 0 THEN 0
  ELSE RefGroups(m, f, j - 1) + Bit(m, j - 1) * (2^f - 1) * 2^((j - 1) * f)

RefExpand(m, f) ==
  IF f = 0 \/ f > W THEN m ELSE RefGroups(m, f, W \div f)

TypeOK ==
  /\ mask \in Word
  /\ pc \in {"entry", "loop", "done", "panicked"}
  /\ i \in 0 .. W - 1
  /\ newMask \in Word
  /\ bits \in Word

(* Every call returns, without a panic, the reference expansion of the   *)
(* mask, for every factor in Factors: the early returns and 1 .. W - 1.   *)
(* factor = W is left out of the run, since the shift by W panics or is   *)
(* masked to 0 there (utils.rs:60).                                       *)
ExpandCorrect ==
  pc \in {"done", "panicked"} => (pc = "done" /\ newMask = RefExpand(mask, factor))

=============================================================================
