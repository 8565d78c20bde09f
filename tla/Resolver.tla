------------------------------ MODULE Resolver ------------------------------
(***************************************************************************)
(* struct gil_fs_resolver (lib/gen/fs_resolver.c): where the file is that   *)
(* an import names.  A path is the sequence of names from the root, or from *)
(* a directory.  A resolver rs is the sequence of directories, the one of   *)
(* the program first and that of the file being parsed last (head).  There  *)
(* are no symbolic links.                                                   *)
(***************************************************************************)
EXTENDS Sequences
LOCAL INSTANCE SequencesExt

\* dirnamify
Dirname(path) == Front(path)

\* gil_fs_resolver_init
NewResolver(path) == <<Dirname(path)>>

\* realpath, one name after the other.
Walk(path, name) ==
  CASE name = "." \/ (name = ".." /\ path = <<>>) -> path
    [] name = ".." /\ path # <<>> -> Front(path)
    [] OTHER -> Append(path, name)

\* normalize: from the directory of the file that imports.
Normalize(rs, path) == FoldLeft(Walk, Last(rs), path)

\* create_reader and destroy_reader: the file's directory comes and goes.
CreateReader(rs, path) == Append(rs, Dirname(path))
DestroyReader(rs) == Front(rs)
=============================================================================
