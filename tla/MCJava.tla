------------------------------- MODULE MCJava -------------------------------
(* Java with small constants for TLC. *)
EXTENDS Java, TLC

CONSTANTS java, lib,    \* File
          a, b, c       \* Body

Of(body, size, executable) == [body |-> body, size |-> size, executable |-> executable]

\* The second listing keeps java and replaces the library by a longer one.
MCPublished == <<(java :> Of(a, 2, TRUE)) @@ (lib :> Of(b, 1, FALSE)),
                 (java :> Of(a, 2, TRUE)) @@ (lib :> Of(c, 2, FALSE))>>
MCTarget == <<lib, java>>
==============================================================================
