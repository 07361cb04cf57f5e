------------------------------ MODULE MCLogin ------------------------------
(* Instances of Login for TLC. *)
EXTENDS Login

Plain == [type |-> {"pass"}, module |-> "plain"]
Gssapi == [type |-> {"gssapi"}, module |-> "gssapi"]
Certificate == [type |-> {"cert"}, module |-> "null"]
PamAndCertificate == [type |-> {"pass", "cert"}, module |-> "pam"]

\* Lists of methods figure_auth_funcs builds: the primary ones are one method, each
\* alternative is another.
Lists ==
  {[auth |-> <<Gssapi, Plain>>, timeout |-> TRUE],
   [auth |-> <<PamAndCertificate, Certificate>>, timeout |-> FALSE]}
=============================================================================
