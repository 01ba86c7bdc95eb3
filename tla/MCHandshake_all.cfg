\* All three models and all 243 legal assignments of orderings.
CONSTANTS
    Models <- MCModels
    Orderings <- MCOrderings
SPECIFICATION Spec
INVARIANTS
    ShippedOrderingsSafe
    StoreLoadOrderSuffices
