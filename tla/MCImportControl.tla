-------------------------- MODULE MCImportControl --------------------------
(***************************************************************************)
(* Small instances of ImportControl.  On disk: the package pkg, its        *)
(* subpackage sub with the module leaf, and the module util, whose body    *)
(* may raise.  Not on disk: cuda with its submodule ext.  The bodies of    *)
(* pkg, sub and util import each other, leaf and the missing ext.          *)
(***************************************************************************)
EXTENDS ImportControl

CONSTANTS pkg, sub, leaf, util, cuda, ext

MCPaths == {pkg, sub, leaf, util, cuda, ext}
MCOnDisk == {pkg, sub, leaf, util}
MCParentOf == [p \in MCPaths |->
  CASE p \in {sub, util} -> pkg
    [] p = leaf -> sub
    [] p = ext  -> cuda
    [] OTHER    -> Root]
MCAbove == [p \in MCPaths |->
  CASE p \in {sub, util} -> {pkg}
    [] p = leaf -> {pkg, sub}
    [] p = ext  -> {cuda}
    [] OTHER    -> {}]
MCBodyImports == [p \in MCOnDisk |->
  CASE p = pkg  -> {sub, util}
    [] p = sub  -> {leaf}
    [] p = util -> {ext, leaf}
    [] OTHER    -> {}]

\* Replacements written for the purpose: they need at most the CUDA package.
OwnBases == [p \in MCPaths |-> {ext} \ {p}]

ASSUME OwnBasesIndependent == BasesIndependent
=============================================================================
