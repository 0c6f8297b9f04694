----------------------------- MODULE MCSpinlock -----------------------------
(* The locks that nest, and one that nests with none of them. *)
EXTENDS Spinlock

KernelLocks == {"kheap", "page_alloc", "task_table"}
KernelNests == {<<"kheap", "page_alloc">>}
=============================================================================
