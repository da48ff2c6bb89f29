------------------------- MODULE MCResponseCapture -------------------------
(***************************************************************************)
(* A buffer of three units and bodies of up to six, in chunks of any size.  *)
(***************************************************************************)
EXTENDS ResponseCapture

\* A response for every verdict, and one nothing is pending for.
MCReplies ==
  {[pending |-> "none", leaks |-> FALSE, status |-> 200, defects |-> {}],
   [pending |-> "fill", leaks |-> FALSE, status |-> 200, defects |-> {}],
   [pending |-> "fill", leaks |-> TRUE, status |-> 200, defects |-> {}],
   [pending |-> "fill", leaks |-> FALSE, status |-> 206, defects |-> {"content-range"}],
   [pending |-> "fill", leaks |-> FALSE, status |-> 200, defects |-> {"no-store"}],
   [pending |-> "fill", leaks |-> FALSE, status |-> 201, defects |-> {}],
   [pending |-> "put", leaks |-> FALSE, status |-> 201, defects |-> {}]}
=============================================================================
