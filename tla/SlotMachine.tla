------------------------------ MODULE SlotMachine ------------------------------
(***************************************************************************)
(* The reels of the game engine: SlotSymbols and the two calculations of   *)
(* CalculateGameResultUseCase, which differ in where their random numbers  *)
(* come from and not in what they do with them.                            *)
(*                                                                         *)
(* AnySymbol is a faulty form of OtherSymbols, no part of the              *)
(* specification.                                                          *)
(***************************************************************************)
EXTENDS Integers, Sequences

CONSTANTS Symbols,     \* six in the program, each with a positive weight
          Multipliers  \* what three of a symbol pay per unit staked

ASSUME SlotAssumption == Multipliers \in [Symbols -> Nat \ {0, 1}]

Alike(r) == r[1] = r[2] /\ r[2] = r[3]

\* random.choice of the list that holds every symbol as often as its weight says.
Drawn == Symbols \X Symbols \X Symbols

\* A winning spin draws one symbol and shows it three times.
Wins == {[reels |-> <<s, s, s>>, multiplier |-> Multipliers[s]] : s \in Symbols}

AnySymbol(s) == Symbols
OtherSymbols(s) == Symbols \ {s}

\* A losing one draws three, and replaces the middle one when all came out alike.
LosingReels == {r \in Drawn : ~Alike(r)}
               \cup UNION {{[r EXCEPT ![2] = s] : s \in OtherSymbols(r[1])} :
                           r \in {x \in Drawn : Alike(x)}}
Losses == {[reels |-> r, multiplier |-> 0] : r \in LosingReels}

\* What the rest of the engine tells apart: what a spin pays, and whether it shows
\* three of a kind.
Outcomes == {[alike |-> Alike(o.reels), multiplier |-> o.multiplier] : o \in Wins \cup Losses}
==============================================================================
