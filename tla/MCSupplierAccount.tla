------------------------- MODULE MCSupplierAccount -------------------------
\* Purchases, payments and workers of one supplier are interchangeable.
EXTENDS SupplierAccount, TLC

Alike == Permutations(Purchase) \union Permutations(Payment) \union Permutations(Worker)
=============================================================================
