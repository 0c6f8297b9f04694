SPECIFICATION Spec
CONSTANT Threads = {t1, t2}
CONSTANT Locks <- KernelLocks
CONSTANT Nests <- KernelNests
INVARIANT HolderRuns
INVARIANT NeverContended
INVARIANT FlagsRestored
