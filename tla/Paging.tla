------------------------------- MODULE Paging -------------------------------
(***************************************************************************)
(* The page tables of forked processes: what ForkISR() and PF_ISR() write  *)
(* to pages of DRAM beside what they do in module Kernel, and where a      *)
(* virtual address leads.  A forked process has a main table, a subtable   *)
(* for its code and data (from 0x80000000 on) and one for its stack (up to *)
(* 0xbfffffff).                                                            *)
(*                                                                         *)
(* Pages are given by their number: page i is at 0xe00000 + i * 0x1000.    *)
(* An entry of a table is NONE (not present), a page, or DATA: what the    *)
(* kernel's table holds there, or the bytes of a program.                  *)
(***************************************************************************)
EXTENDS Kernel

CONSTANTS
  TouchedSlots,   \* the pages behind its code that a program stores to
  DATA

CODE_IDX  == 512    \* entries of a main table
STACK_IDX == 767
LAST_IDX  == 1023   \* the stack's entry of its subtable

Slot == {0, CODE_IDX, STACK_IDX, LAST_IDX} \cup TouchedSlots

ASSUME PagingAssumption ==
  /\ FORK_PAGES = 5 /\ DRAM_PAGE_COUNT >= 3
  /\ TouchedSlots \subseteq 1 .. CODE_IDX - 1
  /\ DATA \notin Page \cup {NONE}

VARIABLE table   \* of each page of DRAM: its bytes, as the entries of a table

(* Where slot `sub' of the area `main' of p's address space leads to.      *)
Translate(p, main, sub) ==
  LET subtable == table[trans_table[p]][main]
  IN  IF subtable \in Page THEN table[subtable][sub] ELSE NONE

-----------------------------------------------------------------------------
(***************************************************************************)
(* ForkISR() fills the five pages.  MyMemcpy() puts a NUL two bytes behind *)
(* the end of the main table, which takes bits 8 to 15 from entry 0 of the *)
(* page behind it; of the subtables only one entry each is written.        *)
(***************************************************************************)
Overrun(t, page) ==
  [t EXCEPT ![page][0] = IF @ \in Page THEN @ - (@ % 16) ELSE @]

FilledPage == [s \in Slot |-> DATA]

MainTable(code_subtable, stack_subtable) ==
  [FilledPage EXCEPT ![CODE_IDX] = code_subtable, ![STACK_IDX] = stack_subtable]

(* Mutant: the kernel's table is copied last.                              *)
OverrunLast(five) ==
  Overrun([table EXCEPT ![five[4]] = FilledPage, ![five[5]] = FilledPage,
                        ![five[2]][0] = five[4], ![five[3]][LAST_IDX] = five[5],
                        ![five[1]] = MainTable(five[2], five[3])],
          five[1] + 1)

ForkTables(five) ==
  LET copied == Overrun([table EXCEPT ![five[4]] = FilledPage,
                                      ![five[5]] = FilledPage],
                        five[1] + 1)
  IN  [copied EXCEPT ![five[1]] = MainTable(five[2], five[3]),
                     ![five[2]][0] = five[4], ![five[3]][LAST_IDX] = five[5]]

(* five_idx[], counted from 1.                                             *)
FiveIdx ==
  LET pages == Lowest(5, FreePages)
  IN  [k \in 1 .. 5 |-> CHOOSE i \in pages :
                          Cardinality({j \in pages : j < i}) = k - 1]

PagedFork ==
  /\ Fork
  /\ table' = IF ForkFails THEN table ELSE ForkTables(FiveIdx)

(***************************************************************************)
(* PF_ISR(): the page given to the process is cleared, and entered in the  *)
(* table at 0xe01000 or 0xe02000, whichever tables the process has.        *)
(***************************************************************************)
FixedTable(main) == IF main = CODE_IDX THEN 1 ELSE 2

PagedFault(main, sub) ==
  /\ PageFault
  /\ \/ FreePages = {} /\ UNCHANGED table
     \/ \E i \in Lowest(1, FreePages) :
          table' = [table EXCEPT ![i] = [s \in Slot |-> NONE],
                                 ![FixedTable(main)][sub] = i]

(* Memory that nothing was written to yet is taken to be zero.             *)
InitTables == table = [i \in Page |-> [s \in Slot |-> NONE]]

-----------------------------------------------------------------------------
(***************************************************************************)
(* AddressSpace: the code and the stack of a forked process are where its  *)
(* PCB and its frame say, by way of tables and in pages that are all its   *)
(* own, though its five pages are any that are free, subtables keep what   *)
(* was in their page, and each copy of the kernel's table damages the page *)
(* behind.                                                                 *)
(***************************************************************************)
AddressSpace ==
  \A p \in Pid : Forked(p) =>
    LET main == table[trans_table[p]]
        five == {trans_table[p], main[CODE_IDX], main[STACK_IDX],
                 Translate(p, CODE_IDX, 0), Translate(p, STACK_IDX, LAST_IDX)}
    IN  five \subseteq PagesOf(p) /\ Cardinality(five) = 5
=============================================================================
