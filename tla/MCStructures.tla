---------------------------- MODULE MCStructures ----------------------------
(***************************************************************************)
(* The data structures of the kernel and the byte streams it decodes, side *)
(* by side: heap, slab caches, page compression, the children of the       *)
(* desktop, mouse and keyboard, the two run queues, a message queue, the   *)
(* two text buffers, the file system's tree and the ARP table.  They share *)
(* no state: each behaviour is one of one of them, named by component, and *)
(* the others stay as they began.                                          *)
(***************************************************************************)
EXTENDS Heap, SlabCache, PageCompress, WidgetTree, Ps2Mouse,
        Ps2Keyboard, CfsRunQueue, RunQueue, MsgQueue, TextEditor, Notes,
        Vfs, ArpTable

CONSTANTS a1, a2    \* two pages that get compressed

VARIABLE component

vars == <<component, heapVars, slabVars, zipVars, treeVars, mouseVars,
          keyVars, cfsVars, queueVars, msgVars, teVars, noteVars, vfsVars, arpVars>>

MCPageAddr == {a1, a2}
Filled(f(_)) == [i_ \in 1 .. PageSize |-> f(i_)]

(* At first every page of two words that gets compressed; then a run       *)
(* longer than MaxRun and a page of runs that differ.                      *)
MCFirstMemory ==
  {[a \in MCPageAddr |-> IF a = a1 THEN p ELSE Filled(LAMBDA k : 7)] :
     p \in {q \in [1 .. PageSize -> {0, 7}] : Worthwhile(q)}}
MCLaterPages ==
  {Filled(LAMBDA k : IF k <= MaxRun THEN 7 ELSE 0),
   Filled(LAMBDA k : IF k = MaxRun + 1 THEN 7 ELSE 0)}

(* What the uninitialised memory of a queue that is not used holds. *)
NoBuffer == [i_ \in Index |-> CHOOSE m \in Message : TRUE]
NoMessages == [c_ \in Caller |-> CHOOSE m \in Message : TRUE]

MCOpenText == << <<"x">>, <<>> >>
MCGreeting == <<"x">>
MCMoves == {<<0, 0>>, <<-5, 3>>, <<12, -5>>}

Init ==
  /\ component \in
       {"heap", "slab", "zip", "tree", "mouse", "keyboard", "cfs",
        "queue", "messages", "editor", "notes", "files", "arp"}
  /\ MsgInit /\ (component # "messages" => buffer = NoBuffer /\ msg = NoMessages)
  /\ SlabInit /\ (component # "slab" => objects_per_slab = 0)
  /\ ZipInit /\ (component # "zip" => memory = [a \in MCPageAddr |-> Filled(LAMBDA k : 7)])
  /\ MouseInit /\ (component # "mouse" => mouse_cycle = 0)
  /\ HeapInit /\ TreeInit /\ KeysInit /\ CfsInit /\ QueueInit /\ TeInit /\ NotesInit
  /\ VfsInit /\ ArpInit

Next ==
  \/ /\ component = "heap" /\ HeapNext
     /\ UNCHANGED <<component, slabVars, zipVars, treeVars, mouseVars, keyVars,
                   cfsVars, queueVars, msgVars, teVars, noteVars, vfsVars, arpVars>>
  \/ /\ component = "slab" /\ SlabNext
     /\ UNCHANGED <<component, heapVars, zipVars, treeVars, mouseVars, keyVars,
                   cfsVars, queueVars, msgVars, teVars, noteVars, vfsVars, arpVars>>
  \/ /\ component = "zip" /\ ZipNext
     /\ UNCHANGED <<component, heapVars, slabVars, treeVars, mouseVars, keyVars,
                   cfsVars, queueVars, msgVars, teVars, noteVars, vfsVars, arpVars>>
  \/ /\ component = "tree" /\ TreeNext
     /\ UNCHANGED <<component, heapVars, slabVars, zipVars, mouseVars, keyVars,
                   cfsVars, queueVars, msgVars, teVars, noteVars, vfsVars, arpVars>>
  \/ /\ component = "mouse" /\ MouseNext
     /\ UNCHANGED <<component, heapVars, slabVars, zipVars, treeVars, keyVars,
                   cfsVars, queueVars, msgVars, teVars, noteVars, vfsVars, arpVars>>
  \/ /\ component = "keyboard" /\ KeysNext
     /\ UNCHANGED <<component, heapVars, slabVars, zipVars, treeVars, mouseVars,
                   cfsVars, queueVars, msgVars, teVars, noteVars, vfsVars, arpVars>>
  \/ /\ component = "cfs" /\ CfsNext
     /\ UNCHANGED <<component, heapVars, slabVars, zipVars, treeVars, mouseVars,
                   keyVars, queueVars, msgVars, teVars, noteVars, vfsVars, arpVars>>
  \/ /\ component = "queue" /\ QueueNext
     /\ UNCHANGED <<component, heapVars, slabVars, zipVars, treeVars, mouseVars,
                   keyVars, cfsVars, msgVars, teVars, noteVars, vfsVars, arpVars>>
  \/ /\ component = "messages" /\ MsgNext
     /\ UNCHANGED <<component, heapVars, slabVars, zipVars, treeVars, mouseVars,
                   keyVars, cfsVars, queueVars, teVars, noteVars, vfsVars, arpVars>>
  \/ /\ component = "editor" /\ TeNext
     /\ UNCHANGED <<component, heapVars, slabVars, zipVars, treeVars, mouseVars,
                   keyVars, cfsVars, queueVars, msgVars, noteVars, vfsVars, arpVars>>
  \/ /\ component = "notes" /\ NotesNext
     /\ UNCHANGED <<component, heapVars, slabVars, zipVars, treeVars, mouseVars,
                   keyVars, cfsVars, queueVars, msgVars, teVars, vfsVars, arpVars>>
  \/ /\ component = "files" /\ VfsNext
     /\ UNCHANGED <<component, heapVars, slabVars, zipVars, treeVars, mouseVars,
                   keyVars, cfsVars, queueVars, msgVars, teVars, noteVars, arpVars>>
  \/ /\ component = "arp" /\ ArpNext
     /\ UNCHANGED <<component, heapVars, slabVars, zipVars, treeVars, mouseVars,
                   keyVars, cfsVars, queueVars, msgVars, teVars, noteVars, vfsVars>>

Spec == Init /\ [][Next]_vars
=============================================================================
