------------------------------ MODULE PeArray ------------------------------
(***************************************************************************)
(* The systolic array (pe_array.v) of Side x Side processing elements      *)
(* (PE.v).  Image words flow to the right along a row, weight words down a *)
(* column.  A word is a value; a product is the pair of its operands, and  *)
(* a result register is the sequence of the products summed into it, so    *)
(* that a lost, doubled or misplaced product is visible.  The word Zero is *)
(* the 32-bit 0: a product with it adds nothing.  One step is one clock.   *)
(***************************************************************************)
EXTENDS Integers, Sequences

CONSTANTS Side,   \* rows and columns of the array, 4 in pe_array.v
          Zero    \* the word 0

ASSUME SideAssumption == Side \in Nat \ {0}

VARIABLES result,       \* result[r][c]
          data_out,     \* the image word PE (r, c) hands to PE (r, c + 1)
          weight_out    \* the weight word PE (r, c) hands to PE (r + 1, c)

peVars == <<result, data_out, weight_out>>

Lane  == 0..(Side - 1)
Array(v) == [r \in Lane |-> [c \in Lane |-> v]]

-----------------------------------------------------------------------------
\* The wiring of pe_array.v: the edge PEs take the feeds.
DataIn(in_data, r, c)     == IF c = 0 THEN in_data[r] ELSE data_out[r][c - 1]
WeightIn(in_weight, r, c) == IF r = 0 THEN in_weight[c] ELSE weight_out[r - 1][c]

\* result + weight * data.
Accumulate(sum, weight, data) ==
  IF Zero \in {weight, data} THEN sum ELSE Append(sum, <<weight, data>>)

PeInit == /\ result = Array(<<>>)
          /\ data_out = Array(Zero)
          /\ weight_out = Array(Zero)

\* mode SINGLE: every PE multiplies, accumulates and passes its operands on.
Single(in_weight, in_data) ==
  /\ result' = [r \in Lane |-> [c \in Lane |->
       Accumulate(result[r][c], WeightIn(in_weight, r, c), DataIn(in_data, r, c))]]
  /\ data_out' = [r \in Lane |-> [c \in Lane |-> DataIn(in_data, r, c)]]
  /\ weight_out' = [r \in Lane |-> [c \in Lane |-> WeightIn(in_weight, r, c)]]

\* mode DISABLE holds the results, mode CLEAR zeroes them; both stop the flow.
Disable == /\ UNCHANGED result
           /\ data_out' = Array(Zero)
           /\ weight_out' = Array(Zero)

Clear == /\ result' = Array(<<>>)
         /\ data_out' = Array(Zero)
         /\ weight_out' = Array(Zero)

PeClock(mode, in_weight, in_data) ==
  \/ mode = "SINGLE"  /\ Single(in_weight, in_data)
  \/ mode = "DISABLE" /\ Disable
  \/ mode = "CLEAR"   /\ Clear

\* The product the array must compute: image row r times weight row c, in
\* the order the words are fed.
Product(image, weight) ==
  [r \in Lane |-> [c \in Lane |->
     [j \in 1..Side |-> <<weight[Side * c + j - 1], image[Side * r + j - 1]>>]]]
=============================================================================
