SPECIFICATION Spec
CONSTANT Nil = Nil
CHECK_DEADLOCK FALSE
PROPERTIES NobodyStuck ListingsSettle SessionsSettle
