---------------------------- MODULE MCOAuthTokens ----------------------------
(* Small instances of the Mercado Livre token store for TLC.               *)
EXTENDS OAuthTokens

CONSTANTS c1, c2

MCCallers == {c1, c2}
=============================================================================
