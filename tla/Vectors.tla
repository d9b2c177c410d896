------------------------------ MODULE Vectors -------------------------------
(***************************************************************************)
(* Any one of the three vectors and its client, and what must hold of all. *)
(***************************************************************************)
EXTENDS VectorBase

CONSTANTS MinDefaultCapacity, Literals   \* CVector's

ASSUME CVectorAssumption == MinDefaultCapacity \in Nat \ {0} /\ Literals \subseteq Seq(Elems)

VARIABLE kind       \* which vector this is

C == INSTANCE CVector
O == INSTANCE ObjVector
H == INSTANCE HPDSVector

VInit == NoVector /\ kind \in {"c_std", "c_oop", "hpds"}

VNext ==
  /\ \/ kind = "c_std" /\ C!CNext
     \/ kind = "c_oop" /\ O!ONext
     \/ kind = "hpds"  /\ H!HNext
  /\ UNCHANGED kind

VSpec == VInit /\ [][VNext]_<<vars, kind>>

-----------------------------------------------------------------------------
(***************************************************************************)
(* Whatever fails half-way, there is one buffer while the vector has data  *)
(* and none while it has not, so that none leaks and none is freed twice;  *)
(* and the elements are inside it (c_std_vector/vector.c 26-134: deinit    *)
(* refuses a vector without data).                                         *)
(***************************************************************************)
OneBuffer ==
  /\ bufs = IF vec.null THEN 0 ELSE 1
  /\ ~vec.null => vec.size \in 0..vec.cap /\ vec.cells \in [1..vec.cap -> Elems \cup {Junk}]

(***************************************************************************)
(* A pointer into a vector stays good until some call asks for more than   *)
(* the capacity there was when it was taken: reserve never shrinks, clear, *)
(* pop and refused calls keep the buffer (c_std_vector/vector.c 26-32,     *)
(* 122-154).                                                               *)
(***************************************************************************)
PointersKeptWithinCapacity ==
  ref # NoRef /\ ref.asked <= ref.upto => ref.ok

(***************************************************************************)
(* Pushing an element of the vector itself appends that element, and not   *)
(* freed memory.  The two vectors whose macro copies first keep this even  *)
(* when the push grows the vector (vector.h:82, c_oop_vector/vector.h:67); *)
(* the third only as long as there was room (c_std_vector/vector.c         *)
(* 122-134).                                                               *)
(***************************************************************************)
SelfPushReadsElement ==
  [][(/\ ret' = "pushed" /\ vec'.cells[vec'.size] = Junk
      /\ \A n \in 1..vec.size : vec.cells[n] # Junk)
       => IF kind = "c_std" THEN ref'.asked > ref'.upto ELSE ref.asked > ref.upto]_vars

(***************************************************************************)
(* Each vector implements the sequence: what was pushed is there in order, *)
(* and no failed call, growth or reserve changes an element.               *)
(***************************************************************************)
Abs == INSTANCE VectorSeq WITH Elems <- Elems \cup {Junk}, seq <- Contents(vec)

RefinesSeq == Abs!Spec
=============================================================================
