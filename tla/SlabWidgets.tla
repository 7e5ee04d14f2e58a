---------------------------- MODULE SlabWidgets ----------------------------
(***************************************************************************)
(* Structures in slab objects: what a client writes into an object of the  *)
(* cache, in bytes.  widget_create (devilui.c) puts a widget_t of 344      *)
(* bytes, as the build lays it out, into an object of 256 bytes.           *)
(***************************************************************************)
EXTENDS SlabCache

CONSTANTS
  ObjectSize,    \* cache->object_size
  StructSize     \* sizeof the structure the client keeps in an object

(* The bytes of its page that the owner of object o writes. *)
Bytes(o) == o[2] * ObjectSize .. o[2] * ObjectSize + StructSize - 1

----------------------------------------------------------------------------
(* Properties. *)

(* devilui.c:42 "Widgets fit in 256 bytes": no two widgets share a byte.   *)
WidgetsFit ==
  \A o, p \in held : o # p /\ o[1] = p[1] => Bytes(o) \cap Bytes(p) = {}
=============================================================================
