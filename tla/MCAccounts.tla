------------------------------ MODULE MCAccounts ------------------------------
(* Accounts with small constants for TLC. *)
EXTENDS Accounts, TLC

SignIns == Permutations(Account) \cup Permutations(Thread)

\* Without is retain(|held| held.uuid != uuid) on the lists that occur: those in
\* which no account stands twice.
ASSUME WithoutRetains ==
    \A n \in 0..2 : \A s \in [1..n -> Account] :
        (\A i, j \in 1..n : s[i] = s[j] => i = j) =>
            \A u \in Account : LET Other(v) == v # u IN Without(s, u) = SelectSeq(s, Other)
==============================================================================
