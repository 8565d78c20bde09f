------------------------------ MODULE FsModule ------------------------------
(***************************************************************************)
(* lib/modules/fs.c, the C module cmd/main.c registers: files are C values  *)
(* whose functions are looked up in a namespace that only the module knows. *)
(* The file system is a map from paths to texts that nothing else changes.  *)
(***************************************************************************)
EXTENDS Builtins

CONSTANT Contents       \* path -> text

\* A FILE belongs to the one value that was made for it: what has not been read.
File(ns, rest) == [type |-> "CVAL", ns |-> ns, open |-> TRUE, rest |-> rest]

\* create: the module's namespace and that of its files.
Create(m) ==
  LET ns == NewId(m)
      m1 == Alloc(m, Namespace(0))
      nsfile == NewId(m1)
      m2 == Alloc(m1, Namespace(0))
      m3 == Alloc(m2, CFunction("fs.close", 0))
      m4 == Alloc(m3, CFunction("fs.read", 0))
      files == NamespaceSet(NamespaceSet(m4, nsfile, "close", NewId(m2)),
                            nsfile, "read", NewId(m3))
  IN [NamespaceSet(Alloc(files, CFunction("fs.open", 0)), ns, "open", NewId(files))
      EXCEPT !.fs = [ns |-> ns, nsfile |-> nsfile]]

\* fs_open, for reading.
Open(m, argv) ==
  CASE Len(argv) \notin {1, 2} -> PushError(m)
    [] Len(argv) \in {1, 2} /\ TypeOf(m, argv[1]) # "BUFFER" ->
         PushTypeError(m, argv[1])
    [] OTHER ->
         IF m.values[argv[1]].buffer \notin DOMAIN Contents THEN PushError(m)
         ELSE PushNew(m, File(m.fs.nsfile, Contents[m.values[argv[1]].buffer]))

\* What both functions of a file look at first.
Usable(m, self, argv) ==
  argv = <<>> /\ TypeOf(m, self) = "CVAL" /\ m.values[self].open
Refused(m, self, argv) ==
  IF argv = <<>> /\ TypeOf(m, self) # "CVAL" THEN PushTypeError(m, self)
  ELSE PushError(m)

\* fs_file_close
Close(m, self, argv) ==
  IF Usable(m, self, argv) THEN Push([m EXCEPT !.values[self].open = FALSE], knone)
  ELSE Refused(m, self, argv)

\* fs_file_read_all: a second time there is nothing left.
ReadAll(m, self, argv) ==
  IF Usable(m, self, argv)
  THEN PushNew([m EXCEPT !.values[self].rest = ""], Buffer(m.values[self].rest))
  ELSE Refused(m, self, argv)

\* func->cfunc.func with func->cfunc.self.
CallCFunction(m, f, argv) ==
  CASE f.func = "fs.open" -> Open(m, argv)
    [] f.func = "fs.close" -> Close(m, f.self, argv)
    [] f.func = "fs.read" -> ReadAll(m, f.self, argv)
    [] OTHER -> CallBuiltin(m, f.func, argv)
=============================================================================
