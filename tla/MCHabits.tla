------------------------------ MODULE MCHabits ------------------------------
EXTENDS Habits, TLC

Symmetry == Permutations(Saves) \cup Permutations(Requests)

\* For properties of undisturbed behaviours: disturbed never becomes FALSE again.
Undisturbed == ~disturbed
=============================================================================
