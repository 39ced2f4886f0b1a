------------------------------ MODULE MCSkctl ------------------------------
(* A small instance of Skctl for TLC.                                        *)
EXTENDS Skctl

\* A client that goes step by step.
MCFurther == {{"GETADDRINFO"}, {"SOCKET"}, {"NOBLOCK"}, {"BIND", "LISTEN"}, {"CONNECT"},
              {"SOCKET", "REUSE_ADDR", "BIND"}, {"GETADDRINFO", "SOCKET", "CONNECT"}}
=============================================================================
