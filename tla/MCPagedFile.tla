----------------------------- MODULE MCPagedFile -----------------------------
(***************************************************************************)
(* PagedFile on a file of two pages.  Clients map all of it, all but the   *)
(* last place, or believe it has a page more; they ask for a little, and   *)
(* for a length that 32 bits cut to nothing, at the cursor's place in a    *)
(* page header and at the footer.  A write that leaves the mapping stores  *)
(* what it has up to the middle of the second page's header.               *)
(***************************************************************************)
EXTENDS PagedFileProps

MCMapArgs == {<<2 * PAGE_SIZE, 2>>, <<2 * PAGE_SIZE - 1, 2>>, <<2 * PAGE_SIZE, 3>>}
MCParts == {0..PAGE_SIZE+CUR_AT}
MCLens == {2, OffMod}
MCCurs == {CUR_AT, PAGE_SIZE - FTR_SIZE}
=============================================================================
