----------------------------- MODULE MCStartup -----------------------------
(***************************************************************************)
(* Constants of the run of Startup: kernels that end inside a page, at a   *)
(* page, and in the second and third page table; machines with enough      *)
(* frames and with too few; memory that is zero at boot, and that is not.  *)
(***************************************************************************)
EXTENDS Startup

SomeMachines == ((5..23) \X {10, 40} \X {{<<FALSE, 0>>}})
                  \cup ({6, 8} \X {40} \X {{<<FALSE, 2>>}})

=============================================================================
