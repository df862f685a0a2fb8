--------------------------- MODULE MCWalletEncrypt ---------------------------
(* Two callers of EncryptWallet and the passphrases they choose. *)
EXTENDS WalletEncrypt
==============================================================================
