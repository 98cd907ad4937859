--------------------------- MODULE MCClientBuilder ---------------------------
(***************************************************************************)
(* Model-checking instance of ClientBuilder: the authorization key and one *)
(* other, two values, a good and a bad token, metadata maps of up to two  *)
(* entries (so that a key can hold two values, or the caller can set an  *)
(* authorization entry of its own), and two requests.                     *)
(***************************************************************************)
EXTENDS ClientBuilder

CONSTANTS k_auth, k_other, v1, v2, t_good, t_bad, no_token, d_short, d_default,
          n_small, no_size

MCKeys == {k_auth, k_other}
MCValues == {v1, v2}
MCTokens == {t_good, t_bad}
MCBadTokens == {t_bad}
MCTimeouts == {d_short, d_default}
MCMessageSizes == {n_small}
MCMaxEntries == 2
MCMaxRequests == 2

=============================================================================
