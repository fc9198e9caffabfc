----------------------------- MODULE PairLedger -----------------------------
(***************************************************************************)
(* Pair implements LPToken: its ledger of shares, as it was before the     *)
(* call in progress, is the abstract one.                                  *)
(***************************************************************************)
EXTENDS Pair

\* The state without the effects of an unfinished call.
Committed == IF frame = Idle THEN Checkpoint ELSE saved

Ledger == INSTANCE LPToken WITH
  Accounts <- Addr,
  Callers <- Users,
  Pool <- Self,
  Locked <- MINIMUM_LIQUIDITY,
  Shares <- 1 .. MaxLP,
  Values <- LPAmounts \cup Approvals,
  totalSupply <- Committed.totalSupply,
  balanceOf <- Committed.balanceOf,
  allowance <- Committed.allowance

\* Seen from outside its calls, the pair is the ledger of LPToken: mint and
\* burn, which read the books before they call the tokens and write them
\* before or after (pair.rs:294-374), take effect in one step on the books of
\* that moment; swap, skim, sync and a call that fails leave no trace; and no
\* transfer or approval (pair.rs:491-531) is lost to a call that is undone.
ImplementsLPToken == Ledger!Spec

=============================================================================
