SPECIFICATION Spec
CONSTANTS
    Namespaces = {n1, n2}
    Kinds = {pods, services}
    Pods = pods
    Names = {a}
    None = None
    Fetches = {f1, f2, f3}
INVARIANTS
    ExpiryShown
