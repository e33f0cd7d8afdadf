----------------------------- MODULE MCProxyLink -----------------------------
(***************************************************************************)
(* ProxyLink with scans that find one or two candidates: enough for one to *)
(* be torn down and the next to be tried under the same lock.              *)
(***************************************************************************)
EXTENDS ProxyLink
=============================================================================
