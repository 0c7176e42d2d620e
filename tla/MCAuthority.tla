---------------------------- MODULE MCAuthority ----------------------------
EXTENDS ToolAuthority

CONSTANT t1

(* A read, a write the tool does not declare, and a question that needs no *)
(* permission.                                                             *)
MCPlans ==
  {[requested |-> {"read"}, declared |-> {"read"}, privacy |-> "public",
    mutates |-> FALSE],
   [requested |-> {"read", "write"}, declared |-> {"read", "write"},
    privacy |-> "personal", mutates |-> TRUE],
   [requested |-> {"write"}, declared |-> {"read"}, privacy |-> "public",
    mutates |-> TRUE],
   [requested |-> {}, declared |-> {}, privacy |-> "personal",
    mutates |-> FALSE]}
MCGrants == {{"read"}, {"read", "write"}}
=============================================================================
