------------------------------ MODULE MCLocks ------------------------------
(* The shell, a program that makes system calls, and a task that runs ACPI *)
(* methods.                                                                *)
EXTENDS Locks

MCPaths == <<{"alloc", "slab", "fs", "exec", "mutex", "locks"},
             {"kill", "dirscan"},
             {"slab", "mutex", "locks"}>>
=============================================================================
