---------------------------- MODULE MCDropLinks ----------------------------
(* One link of each kind of limit, two uploads that can race for its only     *)
(* use, two owner requests at a time, one crash and one failing write.        *)
EXTENDS DropLinks
=============================================================================
