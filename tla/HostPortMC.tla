----------------------------- MODULE HostPortMC -----------------------------
(***************************************************************************)
(* Small instances of HostPort for TLC.                                    *)
(***************************************************************************)
EXTENDS HostPort

\* An ILAT write alone, around a memory write, and before a multicast; an entry
\* for nobody.
MCLoadFiles ==
  {<<"ilat">>, <<"ilat", "write", "ilat">>, <<"ilat", "mcast">>, <<"stray">>}
=============================================================================
