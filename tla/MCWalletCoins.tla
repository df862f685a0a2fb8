--------------------------- MODULE MCWalletCoins ---------------------------
(***************************************************************************)
(* Chains for WalletCoins.  fund and gift pay the wallet, pay spends fund  *)
(* and leaves change, next and again both spend the change, again with     *)
(* gift, and stake stakes fund and gift.  The branch A confirms pay and    *)
(* next one block at a time, the branch S stakes, the branch B confirms    *)
(* fund and gift later, and pay with next in one block.                    *)
(***************************************************************************)
EXTENDS WalletCoins

MCTx == {"fund", "gift", "pay", "next", "again", "stake"}
MCVin == [t \in MCTx |-> CASE t = "pay" -> {"fund"} [] t = "stake" -> {"fund", "gift"}
    [] t = "next" -> {"pay"} [] t = "again" -> {"pay", "gift"} [] OTHER -> {}]
MCMine == {"fund", "gift", "pay", "stake"}
MCPayment == {"pay", "next", "again"}

MCPath == [G |-> <<"G">>, F |-> <<"G", "F">>, A |-> <<"G", "F", "A">>,
    A2 |-> <<"G", "F", "A", "A2">>, S |-> <<"G", "F", "S">>,
    S2 |-> <<"G", "F", "S", "S2">>,
    B |-> <<"G", "B">>, B2 |-> <<"G", "B", "B2">>, B3 |-> <<"G", "B", "B2", "B3">>,
    B4 |-> <<"G", "B", "B2", "B3", "B4">>]
MCBlockTx == [b \in DOMAIN MCPath |-> CASE b = "F" -> <<"fund", "gift">> [] b = "A" -> <<"pay">>
    [] b = "A2" -> <<"next">> [] b = "S" -> <<"stake">> [] b = "B2" -> <<"fund", "gift">>
    [] b = "B4" -> <<"pay", "next">> [] OTHER -> << >>]
=============================================================================
